---- MODULE Spec2Model ----
(***************************************************************************)
(* Device teardown of chapi2/multipath (tunelinux part of the file):       *)
(* UnmountMultipathDevice, unmount, KillProcessesUsingMountPoints,         *)
(* findMountPointsOfMultipathDevice and FlushMultipathDevice, called by    *)
(* concurrent threads and serialised by the three package-level mutexes.   *)
(*                                                                         *)
(* Strings the code inspects (device names, PIDs, "kernel") are sequences  *)
(* of one-character strings.  The output of an external command is the     *)
(* sequence of its lines (strings.Split(out, "\n")), each line being the   *)
(* sequence of its whitespace-separated fields (strings.Fields(line)).     *)
(* An error value is a record; the nil error is the record Nil.            *)
(***************************************************************************)
EXTENDS Integers, Sequences, FiniteSets, TLC

\* Number of concurrent caller threads.
NumThreads == 2

Threads == 1..NumThreads

VARIABLES
    mountMutex,               \* set of threads holding mountMutex ({} = unlocked)
    umountMutex,              \* set of threads holding umountMutex
    staleDeviceRemovalMutex,  \* set of threads holding staleDeviceRemovalMutex
    pc,                       \* pc[t]: where thread t stands in its current call
    op,                       \* op[t]: the exported function thread t called
    arg,                      \* arg[t]: its argument (multipathDevice or mountPoint)
    mountPoints,              \* mountPoints[t]: result of findMountPointsOfMultipathDevice
    idx,                      \* idx[t]: position of the range loop over mountPoints
    calls,                    \* calls[t]: external commands run by the current call, in order
    locked,                   \* locked[t]: mutexes the current call has acquired so far
    ret                       \* ret[t]: what the current call returned

\* iSCSI target resolution (getAllDeviceDetails, getIscsiTarget).
VARIABLES
    targetTypeCache,          \* process-wide cache: target name -> target scope
    cachedTargetPortals,      \* per-pass map: target name -> target portals
    targetMappings,           \* the pass's enumerated iSCSI target mappings
    disksLeft,                \* bus types of the disks the pass has still to go through
    iscsiPlugin,              \* whether the plugin was given an iSCSI plugin object
    lastTarget                \* the last getIscsiTarget call: inputs, queries, result

\* Multipath recommendations (GetMultipathRecommendations,
\* setMultipathRecommendations) and the mount-table parse.
VARIABLES
    multipathConf,            \* /etc/multipath.conf: absent, unreadable or its content
    hostFacts,                \* whether multipath is required and the templates load
    runs,                     \* results of the GetMultipathRecommendations calls so far
    applied,                  \* the last setMultipathRecommendations call
    parsed,                   \* the last findMountPointsOfMultipathDevice parse
    configure,                \* the SetMultipathRecommendations call: position, steps run
    removal,                  \* the last RemoveBlockDevicesOfMultipathDevices call
    signals                   \* the last KillProcessesUsingMountPoints call, with the PIDs signalled

teardownVars == <<mountMutex, umountMutex, staleDeviceRemovalMutex, pc, op, arg,
                  mountPoints, idx, calls, locked, ret>>
iscsiVars == <<targetTypeCache, cachedTargetPortals, targetMappings, disksLeft,
               iscsiPlugin, lastTarget>>
tuneVars == <<multipathConf, hostFacts, runs, applied, parsed, configure,
              removal, signals>>

vars == <<teardownVars, iscsiVars, tuneVars>>

----------------------------------------------------------------------------
\* Data the threads pass in and the commands answer with.

mpatha == <<"m", "a">>
mpathb == <<"m", "b">>
Aliases == {mpatha, mpathb}

dev_mpatha  == <<"/", "m", "a">>
dev_mpatha1 == <<"/", "m", "a", "1">>
dev_mpathb  == <<"/", "m", "b">>
dev_sda     == <<"/", "s", "d">>
mp_data == <<"/", "d">>
mp_logs == <<"/", "l">>
mp_home == <<"/", "h">>
w_on   == <<"o", "n">>
w_type == <<"t", "y">>
w_ext4 == <<"e", "4">>
w_rw   == <<"r", "w">>
kernel == <<"k", "e", "r", "n", "e", "l">>

\* `mount` prints "<device> on <mountpoint> type <fs> (<options>)".
MountLine(dev, mp) == <<dev, w_on, mp, w_type, w_ext4, w_rw>>

MountOutputs ==
    { << <<>> >>,
      << MountLine(dev_sda, mp_home), <<>> >>,
      << MountLine(dev_mpatha, mp_data), MountLine(dev_mpatha1, mp_logs),
         MountLine(dev_sda, mp_home), MountLine(dev_mpathb, mp_home), <<>> >>,
      << <<dev_mpathb, mp_data, w_ext4>>, <<>> >> }

\* Mount points a direct caller of KillProcessesUsingMountPoints passes.
AllMountPoints == {mp_data}

\* The nil error and the errors of the external commands.
Nil == [text |-> "nil", name |-> <<>>, cause |-> "nil"]
CmdErr(cmd) == [text |-> "exec", name |-> <<>>, cause |-> cmd]
Panic == [text |-> "panic: nil pointer dereference", name |-> <<>>, cause |-> "nil"]

\* (rc, err) of util.ExecCommandOutput("umount", ...): success, a failure
\* reported with an error value, a non-zero exit code without an error value.
ExecResults(cmd) ==
    { [rc |-> 0, err |-> Nil],
      [rc |-> 32, err |-> CmdErr(cmd)],
      [rc |-> 32, err |-> Nil] }

\* err of a command whose exit code the caller discards.
ErrResults(cmd) == {Nil, CmdErr(cmd)}

----------------------------------------------------------------------------
\* strings.Contains
Contains(s, substr) ==
    \E i \in 0..(Len(s) - Len(substr)) : SubSeq(s, i + 1, i + Len(substr)) = substr

Digits == {"0", "1", "2", "3", "4", "5", "6", "7", "8", "9"}
DigitVal == ("0" :> 0) @@ ("1" :> 1) @@ ("2" :> 2) @@ ("3" :> 3) @@ ("4" :> 4) @@
            ("5" :> 5) @@ ("6" :> 6) @@ ("7" :> 7) @@ ("8" :> 8) @@ ("9" :> 9)

RECURSIVE DecimalValue(_)
DecimalValue(s) ==
    IF s = <<>> THEN 0
    ELSE 10 * DecimalValue(SubSeq(s, 1, Len(s) - 1)) + DigitVal[s[Len(s)]]

\* strconv.Atoi: [ok, n]; an optional sign followed by one or more digits.
Atoi(s) ==
    LET signed == s /= <<>> /\ s[1] \in {"+", "-"}
        body   == IF signed THEN Tail(s) ELSE s
    IN  IF body = <<>> \/ \E i \in 1..Len(body) : body[i] \notin Digits
        THEN [ok |-> FALSE, n |-> 0]
        ELSE [ok |-> TRUE,
              n  |-> IF signed /\ s[1] = "-" THEN 0 - DecimalValue(body)
                     ELSE DecimalValue(body)]

----------------------------------------------------------------------------
\* findMountPointsOfMultipathDevice, the parse of the `mount` output: the third
\* field of every line of more than three fields whose first field contains
\* the device name.
RECURSIVE findMountPoints_SecondField(_, _)
findMountPoints_SecondField(mountLines, multipathDevice) ==
    IF mountLines = <<>> THEN <<>>
    ELSE LET entry == Head(mountLines)
         IN  (IF Len(entry) > 3 /\ Contains(entry[1], multipathDevice)
              THEN <<entry[2]>> ELSE <<>>)
             \o findMountPoints_SecondField(Tail(mountLines), multipathDevice)
RECURSIVE findMountPoints(_, _)
findMountPoints(mountLines, multipathDevice) ==
    IF mountLines = <<>> THEN <<>>
    ELSE LET entry == Head(mountLines)
         IN  (IF Len(entry) > 3 /\ Contains(entry[1], multipathDevice)
              THEN <<entry[3]>> ELSE <<>>)
             \o findMountPoints(Tail(mountLines), multipathDevice)

\* `fuser -mv <mountPoint>` output.
f_hdr  == <<<<"U">>, <<"P">>, <<"A">>, <<"C">>>>
f_user == <<"r">>
f_acc  == <<"c">>
f_cmd  == <<"s", "h">>
f_lbl  == <<"/", "d", ":">>
f_mnt  == <<"m", "n", "t">>

FuserOutputs ==
    { << <<>> >>,
      << f_hdr, <<>> >>,
      << f_hdr, <<f_user>>, <<>> >>,
      << f_hdr, <<f_lbl, f_user, kernel, f_mnt, mp_data>>,
         <<f_user, <<"1", "2">>, f_acc, f_cmd>>,
         <<f_user, <<"x">>, f_acc, f_cmd>>,
         <<f_lbl, f_user, <<"7">>, f_acc, f_cmd>>, <<>> >>,
      << f_hdr, <<f_user, <<"0">>, f_acc, f_cmd>>,
         <<f_user, <<"-", "3">>, f_acc, f_cmd>>, <<f_user, f_acc>>, <<>> >> }

\* Sets of PIDs for which syscall.Kill fails.
KillFailures == {{}, {7}}

ImproperOutput(mountPoint) ==
    [text |-> "Improper output received", name |-> mountPoint, cause |-> "nil"]

\* The PID column of a data row: the third field of a row of more than four
\* fields, the second field of a row of exactly four, none otherwise.
PidStr(lineItems) ==
    IF Len(lineItems) > 4 THEN lineItems[3]
    ELSE IF Len(lineItems) = 4 THEN lineItems[2]
    ELSE <<>>

\* Faulty variant of KillRows: a PID that does not parse ends the scan with
\* an error.
RECURSIVE KillRows_AbortsOnBadPid(_, _, _)
KillRows_AbortsOnBadPid(rows, mountPoint, failing) ==
    IF rows = <<>> THEN [err |-> Nil, killed |-> <<>>]
    ELSE LET line == Head(rows)
             rest == KillRows_AbortsOnBadPid(Tail(rows), mountPoint, failing)
             pid  == Atoi(PidStr(line))
         IN  IF line = <<>> THEN rest
             ELSE IF \E i \in 1..Len(line) : Contains(line[i], kernel) THEN rest
             ELSE IF ~(Len(line) > 1)
                  THEN [err |-> ImproperOutput(mountPoint), killed |-> <<>>]
             ELSE IF PidStr(line) = <<>> THEN rest
             ELSE IF ~pid.ok THEN [err |-> CmdErr("Atoi"), killed |-> <<>>]
             ELSE IF ~(pid.n > 0) THEN rest
             ELSE IF pid.n \in failing
                  THEN [err |-> CmdErr("kill"), killed |-> <<pid.n>>]
             ELSE [err |-> rest.err, killed |-> <<pid.n>> \o rest.killed]

\* The loop of KillProcessesUsingMountPoints over lines[1:]:
\* [err, killed] with killed the PIDs sent SIGKILL, in order.
RECURSIVE KillRows(_, _, _)
KillRows(rows, mountPoint, failing) ==
    IF rows = <<>> THEN [err |-> Nil, killed |-> <<>>]
    ELSE LET line == Head(rows)
             rest == KillRows(Tail(rows), mountPoint, failing)
             pid  == Atoi(PidStr(line))
         IN  IF line = <<>> THEN rest
             ELSE IF \E i \in 1..Len(line) : Contains(line[i], kernel) THEN rest
             ELSE IF ~(Len(line) > 1)
                  THEN [err |-> ImproperOutput(mountPoint), killed |-> <<>>]
             ELSE IF PidStr(line) = <<>> THEN rest
             ELSE IF ~pid.ok THEN rest
             ELSE IF ~(pid.n > 0) THEN rest
             ELSE IF pid.n \in failing
                  THEN [err |-> CmdErr("kill"), killed |-> <<pid.n>>]
             ELSE [err |-> rest.err, killed |-> <<pid.n>> \o rest.killed]

\* Faulty variant of KillProcesses: the output is scanned although the
\* query failed.
KillProcesses_IgnoresQueryError(fuserErr, lines, mountPoint, failing) ==
    IF Len(lines) > 2
    THEN [err |-> fuserErr, killed |-> KillRows(Tail(lines), mountPoint, failing).killed]
    ELSE [err |-> fuserErr, killed |-> <<>>]

\* Body of KillProcessesUsingMountPoints after the lock is taken: the fuser
\* query (fuserErr, lines) and the scan of its output.
KillProcesses(fuserErr, lines, mountPoint, failing) ==
    IF fuserErr /= Nil THEN [err |-> fuserErr, killed |-> <<>>]
    ELSE IF Len(lines) > 2 THEN KillRows(Tail(lines), mountPoint, failing)
    ELSE IF Len(lines) = 2 THEN [err |-> Nil, killed |-> <<>>]
    ELSE [err |-> ImproperOutput(mountPoint), killed |-> <<>>]

----------------------------------------------------------------------------
\* No enumeration pass and no recommendation call has run: the target type
\* cache is empty.
NoCall == [called |-> FALSE]
EmptyMap == [n \in {} |-> <<>>]
Idle ==
    /\ targetTypeCache = EmptyMap
    /\ cachedTargetPortals = EmptyMap
    /\ targetMappings = <<>>
    /\ disksLeft = <<>>
    /\ lastTarget = NoCall
    /\ multipathConf = [state |-> "absent"]
    /\ hostFacts = "required"
    /\ iscsiPlugin = TRUE
    /\ runs = <<>>
    /\ applied = NoCall
    /\ parsed = NoCall
    /\ configure = NoCall
    /\ removal = NoCall
    /\ signals = NoCall

\* State after package initialisation: the mutexes unlocked, no call running.
TeardownInit ==
    /\ mountMutex = {}
    /\ umountMutex = {}
    /\ staleDeviceRemovalMutex = {}
    /\ pc = [t \in Threads |-> "idle"]
    /\ op = [t \in Threads |-> "none"]
    /\ arg = [t \in Threads |-> <<>>]
    /\ mountPoints = [t \in Threads |-> <<>>]
    /\ idx = [t \in Threads |-> 0]
    /\ calls = [t \in Threads |-> <<>>]
    /\ locked = [t \in Threads |-> {}]
    /\ ret = [t \in Threads |-> Nil]

Init == TeardownInit /\ Idle

\* One external command run by a call: the command, the loop position it was
\* run at (0 outside the loop over the mount points) and how it ended.
Call(cmd, at, res) == [cmd |-> cmd, at |-> at, res |-> res]

Outcome(r) == IF r.err /= Nil THEN "err" ELSE IF r.rc /= 0 THEN "rc" ELSE "ok"

\* sync.Mutex.Lock: blocks until the mutex is free.
CanLock(mutex) == mutex = {}

\* A thread enters one of the exported functions.
Enter(t, fn, a, first) ==
    /\ pc[t] = "idle"
    /\ pc' = [pc EXCEPT ![t] = first]
    /\ op' = [op EXCEPT ![t] = fn]
    /\ arg' = [arg EXCEPT ![t] = a]
    /\ UNCHANGED <<mountMutex, umountMutex, staleDeviceRemovalMutex,
                   mountPoints, idx, calls, locked, ret>>

CallUnmountMultipathDevice(t) ==
    \E a \in Aliases : Enter(t, "UnmountMultipathDevice", a, "find_lock")

CallKillProcessesUsingMountPoints(t) ==
    \E m \in AllMountPoints : Enter(t, "KillProcessesUsingMountPoints", m, "kill_lock")

CallFlushMultipathDevice(t) ==
    \E a \in Aliases : Enter(t, "FlushMultipathDevice", a, "flush_lock")

\* findMountPointsOfMultipathDevice: mountMutex.Lock()
FindLock(t) ==
    /\ pc[t] = "find_lock"
    /\ CanLock(mountMutex)
    /\ mountMutex' = {t}
    /\ pc' = [pc EXCEPT ![t] = "find_exec"]
    /\ locked' = [locked EXCEPT ![t] = @ \cup {"mountMutex"}]
    /\ UNCHANGED <<umountMutex, staleDeviceRemovalMutex, op, arg, mountPoints,
                   idx, calls, ret>>

\* Faulty variant of AfterFind: the check of len(mountPoints) == 0 is missing.
AfterFind_NoEmptyCheck(multipathDevice, err, found) ==
    IF err /= Nil
    THEN [pc  |-> "done",
          ret |-> [text  |-> "Error occurred while fetching the mount points",
                   name  |-> multipathDevice, cause |-> err.cause]]
    ELSE [pc |-> "umount_lock", ret |-> Nil]

\* What UnmountMultipathDevice does with the answer of
\* findMountPointsOfMultipathDevice: [pc, ret].
AfterFind(multipathDevice, err, found) ==
    IF err /= Nil
    THEN [pc  |-> "done",
          ret |-> [text  |-> "Error occurred while fetching the mount points",
                   name  |-> multipathDevice, cause |-> err.cause]]
    ELSE IF Len(found) = 0 THEN [pc |-> "done", ret |-> Nil]
    ELSE [pc |-> "umount_lock", ret |-> Nil]

\* findMountPointsOfMultipathDevice: the mount query, the parse, the deferred
\* mountMutex.Unlock(); then lines 752-758 of UnmountMultipathDevice.
FindExec(t) ==
    /\ pc[t] = "find_exec"
    /\ \E err \in ErrResults("mount"), out \in MountOutputs :
         LET found == IF err /= Nil THEN <<>> ELSE findMountPoints(out, arg[t])
             next  == AfterFind(arg[t], err, found)
         IN  /\ mountPoints' = [mountPoints EXCEPT ![t] = found]
             /\ calls' = [calls EXCEPT ![t] =
                            Append(@, Call("mount", 0, IF err = Nil THEN "ok" ELSE "err"))]
             /\ pc' = [pc EXCEPT ![t] = next.pc]
             /\ ret' = [ret EXCEPT ![t] = next.ret]
    /\ mountMutex' = {}
    /\ UNCHANGED <<umountMutex, staleDeviceRemovalMutex, op, arg, idx, locked>>

\* Faulty variant of UmountLock: the loop is entered without umountMutex.
UmountLock_NoLock(t) ==
    /\ pc[t] = "umount_lock"
    /\ pc' = [pc EXCEPT ![t] = "unmount"]
    /\ idx' = [idx EXCEPT ![t] = 1]
    /\ UNCHANGED <<mountMutex, umountMutex, staleDeviceRemovalMutex, op, arg,
                   mountPoints, calls, locked, ret>>

\* UnmountMultipathDevice: umountMutex.Lock() and the start of the loop.
UmountLock(t) ==
    /\ pc[t] = "umount_lock"
    /\ CanLock(umountMutex)
    /\ umountMutex' = {t}
    /\ pc' = [pc EXCEPT ![t] = "unmount"]
    /\ idx' = [idx EXCEPT ![t] = 1]
    /\ locked' = [locked EXCEPT ![t] = @ \cup {"umountMutex"}]
    /\ UNCHANGED <<mountMutex, staleDeviceRemovalMutex, op, arg, mountPoints,
                   calls, ret>>

\* unmount(mountPoint): the error it returns for (rc, err) of the umount
\* command; with rc /= 0 and a nil err, err.Error() dereferences nil.
unmount(r) ==
    IF r.err /= Nil \/ r.rc /= 0
    THEN (IF r.err = Nil THEN Panic ELSE r.err)
    ELSE Nil

\* The loop after mount point i is unmounted: the next mount point, or
\* return nil: [pc, idx, ret].
NextMountPoint(i, n) ==
    IF i < n THEN [pc |-> "unmount", idx |-> i + 1, ret |-> Nil]
    ELSE [pc |-> "done", idx |-> i, ret |-> Nil]

\* What the loop does with the result of the first unmount of mount point i.
AfterUnmount(e, i, n) ==
    IF e = Panic THEN [pc |-> "panicked", idx |-> i, ret |-> Panic]
    ELSE IF e /= Nil THEN [pc |-> "kill_lock", idx |-> i, ret |-> Nil]
    ELSE NextMountPoint(i, n)

\* Faulty variant of AfterRetry: a successful retry returns nil at once
\* instead of going on with the loop.
AfterRetry_ReturnsEarly(e, i, n) ==
    IF e = Panic THEN [pc |-> "panicked", idx |-> i, ret |-> Panic]
    ELSE IF e /= Nil THEN [pc |-> "done", idx |-> i, ret |-> e]
    ELSE [pc |-> "done", idx |-> i, ret |-> Nil]

\* Faulty variant of AfterRetry: a failed retry kills and retries again.
AfterRetry_RetriesAgain(e, i, n) ==
    IF e = Panic THEN [pc |-> "panicked", idx |-> i, ret |-> Panic]
    ELSE IF e /= Nil THEN [pc |-> "kill_lock", idx |-> i, ret |-> Nil]
    ELSE IF i < n THEN [pc |-> "unmount", idx |-> i + 1, ret |-> Nil]
    ELSE [pc |-> "done", idx |-> i, ret |-> Nil]

\* What the loop does with the result of the retried unmount of mount point i.
AfterRetry(e, i, n) ==
    IF e = Panic THEN [pc |-> "panicked", idx |-> i, ret |-> Panic]
    ELSE IF e /= Nil THEN [pc |-> "done", idx |-> i, ret |-> e]
    ELSE NextMountPoint(i, n)

\* The deferred umountMutex.Unlock() runs when the call returns or panics.
UmountMutexAfter(t, nextpc) ==
    IF nextpc \in {"done", "panicked"} THEN umountMutex \ {t} ELSE umountMutex

\* UnmountMultipathDevice line 764: the first unmount of mountPoints[idx].
Unmount(t) ==
    /\ pc[t] = "unmount"
    /\ \E r \in ExecResults("umount") :
         LET next == AfterUnmount(unmount(r), idx[t], Len(mountPoints[t]))
         IN  /\ calls' = [calls EXCEPT ![t] = Append(@, Call("umount", idx[t], Outcome(r)))]
             /\ pc' = [pc EXCEPT ![t] = next.pc]
             /\ idx' = [idx EXCEPT ![t] = next.idx]
             /\ ret' = [ret EXCEPT ![t] = next.ret]
             /\ umountMutex' = UmountMutexAfter(t, next.pc)
    /\ UNCHANGED <<mountMutex, staleDeviceRemovalMutex, op, arg, mountPoints, locked>>

\* Faulty variant of KillLock: the body runs without staleDeviceRemovalMutex.
KillLock_NoLock(t) ==
    /\ pc[t] = "kill_lock"
    /\ pc' = [pc EXCEPT ![t] = "kill_exec"]
    /\ UNCHANGED <<mountMutex, umountMutex, staleDeviceRemovalMutex, op, arg,
                   mountPoints, idx, calls, locked, ret>>

\* KillProcessesUsingMountPoints: staleDeviceRemovalMutex.Lock()
KillLock(t) ==
    /\ pc[t] = "kill_lock"
    /\ CanLock(staleDeviceRemovalMutex)
    /\ staleDeviceRemovalMutex' = {t}
    /\ pc' = [pc EXCEPT ![t] = "kill_exec"]
    /\ locked' = [locked EXCEPT ![t] = @ \cup {"staleDeviceRemovalMutex"}]
    /\ UNCHANGED <<mountMutex, umountMutex, op, arg, mountPoints, idx, calls, ret>>

\* The mount point KillProcessesUsingMountPoints was called with.
KillTarget(t) ==
    IF op[t] = "UnmountMultipathDevice" THEN mountPoints[t][idx[t]] ELSE arg[t]

\* What the caller does with the error of KillProcessesUsingMountPoints:
\* UnmountMultipathDevice wraps it and returns, or goes on to the retry; a
\* direct caller gets it as it is.
AfterKill(fn, mountPoint, err) ==
    IF fn = "UnmountMultipathDevice"
    THEN IF err /= Nil
         THEN [pc  |-> "done",
               ret |-> [text  |-> "Unable to kill the processes using the mount point",
                        name  |-> mountPoint, cause |-> err.cause]]
         ELSE [pc |-> "retry", ret |-> Nil]
    ELSE [pc |-> "done", ret |-> err]

\* KillProcessesUsingMountPoints lines 802-854 and the deferred unlock.
KillExec(t) ==
    /\ pc[t] = "kill_exec"
    /\ \E fuserErr \in ErrResults("fuser"), out \in FuserOutputs, failing \in KillFailures :
         LET res  == KillProcesses(fuserErr, out, KillTarget(t), failing)
             next == AfterKill(op[t], KillTarget(t), res.err)
         IN  /\ calls' = [calls EXCEPT ![t] =
                            Append(@, Call("kill", idx[t], IF res.err = Nil THEN "ok" ELSE "err"))]
             /\ pc' = [pc EXCEPT ![t] = next.pc]
             /\ ret' = [ret EXCEPT ![t] = next.ret]
             /\ umountMutex' = UmountMutexAfter(t, next.pc)
    /\ staleDeviceRemovalMutex' = {}
    /\ UNCHANGED <<mountMutex, op, arg, mountPoints, idx, locked>>

\* UnmountMultipathDevice line 772: the unmount retried after the kill.
Retry(t) ==
    /\ pc[t] = "retry"
    /\ \E r \in ExecResults("umount") :
         LET next == AfterRetry(unmount(r), idx[t], Len(mountPoints[t]))
         IN  /\ calls' = [calls EXCEPT ![t] = Append(@, Call("umount", idx[t], Outcome(r)))]
             /\ pc' = [pc EXCEPT ![t] = next.pc]
             /\ idx' = [idx EXCEPT ![t] = next.idx]
             /\ ret' = [ret EXCEPT ![t] = next.ret]
             /\ umountMutex' = UmountMutexAfter(t, next.pc)
    /\ UNCHANGED <<mountMutex, staleDeviceRemovalMutex, op, arg, mountPoints, locked>>

\* Faulty variant of FlushLock: the flush runs without staleDeviceRemovalMutex.
FlushLock_NoLock(t) ==
    /\ pc[t] = "flush_lock"
    /\ pc' = [pc EXCEPT ![t] = "flush_exec"]
    /\ UNCHANGED <<mountMutex, umountMutex, staleDeviceRemovalMutex, op, arg,
                   mountPoints, idx, calls, locked, ret>>

\* FlushMultipathDevice: staleDeviceRemovalMutex.Lock()
FlushLock(t) ==
    /\ pc[t] = "flush_lock"
    /\ CanLock(staleDeviceRemovalMutex)
    /\ staleDeviceRemovalMutex' = {t}
    /\ pc' = [pc EXCEPT ![t] = "flush_exec"]
    /\ locked' = [locked EXCEPT ![t] = @ \cup {"staleDeviceRemovalMutex"}]
    /\ UNCHANGED <<mountMutex, umountMutex, op, arg, mountPoints, idx, calls, ret>>

\* The deferred staleDeviceRemovalMutex.Unlock() of FlushMultipathDevice.
StaleMutexAfter(t, nextpc) ==
    IF nextpc = "done" THEN staleDeviceRemovalMutex \ {t} ELSE staleDeviceRemovalMutex

\* One command of FlushMultipathDevice run at position `at`; next[err] is
\* [pc, ret], what the function does with the command's error.
FlushStep(t, at, cmd, next) ==
    /\ pc[t] = at
    /\ \E err \in DOMAIN next :
         /\ calls' = [calls EXCEPT ![t] =
                        Append(@, Call(cmd, 0, IF err = Nil THEN "ok" ELSE "err"))]
         /\ pc' = [pc EXCEPT ![t] = next[err].pc]
         /\ ret' = [ret EXCEPT ![t] = next[err].ret]
         /\ staleDeviceRemovalMutex' = StaleMutexAfter(t, next[err].pc)
    /\ UNCHANGED <<mountMutex, umountMutex, op, arg, mountPoints, idx, locked>>

\* Faulty variant of AfterFlush: the escalation first calls
\* KillProcessesUsingMountPoints, with staleDeviceRemovalMutex still held.
AfterFlush_KillsHolders(err) ==
    IF err /= Nil THEN [pc |-> "kill_lock", ret |-> Nil]
    ELSE [pc |-> "done", ret |-> Nil]

\* Lines 894-895 and 914-915: nil returns nil, an error starts the escalation.
AfterFlush(err) ==
    IF err /= Nil THEN [pc |-> "display_info", ret |-> Nil]
    ELSE [pc |-> "done", ret |-> Nil]

\* Line 894: `multipath -f <multipathDevice>`.
FlushExec(t) ==
    FlushStep(t, "flush_exec", "multipath -f",
              [e \in ErrResults("multipath -f") |-> AfterFlush(e)])

\* Faulty variant of AfterDisplayDeviceInfo: the error is returned.
AfterDisplayDeviceInfo_Propagates(err) ==
    IF err /= Nil THEN [pc |-> "done", ret |-> err]
    ELSE [pc |-> "list_processes", ret |-> Nil]

\* Lines 899-902: the error of displayDeviceInfo is logged.
AfterDisplayDeviceInfo(err) == [pc |-> "list_processes", ret |-> Nil]

DisplayDeviceInfo(t) ==
    FlushStep(t, "display_info", "dmsetup info",
              [e \in ErrResults("dmsetup info") |-> AfterDisplayDeviceInfo(e)])

\* Lines 903-906: the error of listTheProcessesUsingDevice is logged.
AfterListTheProcessesUsingDevice(err) == [pc |-> "force_delete", ret |-> Nil]

ListTheProcessesUsingDevice(t) ==
    FlushStep(t, "list_processes", "fuser",
              [e \in ErrResults("fuser") |-> AfterListTheProcessesUsingDevice(e)])

\* Faulty variant of AfterForceDelete: the error is returned as it is, without
\* the message that names the device.
AfterForceDelete_Unwrapped(multipathDevice, err) == [pc |-> "done", ret |-> err]

\* Lines 907-912: what FlushMultipathDevice returns after
\* forceDeleteMultipathDevice returned err.
AfterForceDelete(multipathDevice, err) ==
    IF err /= Nil
    THEN [pc  |-> "done",
          ret |-> [text  |-> "Unable to remove the multipath device by force as well",
                   name  |-> multipathDevice, cause |-> err.cause]]
    ELSE [pc |-> "done", ret |-> err]

ForceDeleteMultipathDevice(t) ==
    FlushStep(t, "force_delete", "dmsetup remove -f",
              [e \in ErrResults("dmsetup remove -f") |-> AfterForceDelete(arg[t], e)])

\* The caller takes the result (or recovers from the panic) and may call again.
Return(t) ==
    /\ pc[t] \in {"done", "panicked"}
    /\ pc' = [pc EXCEPT ![t] = "idle"]
    /\ op' = [op EXCEPT ![t] = "none"]
    /\ arg' = [arg EXCEPT ![t] = <<>>]
    /\ mountPoints' = [mountPoints EXCEPT ![t] = <<>>]
    /\ idx' = [idx EXCEPT ![t] = 0]
    /\ calls' = [calls EXCEPT ![t] = <<>>]
    /\ locked' = [locked EXCEPT ![t] = {}]
    /\ ret' = [ret EXCEPT ![t] = Nil]
    /\ UNCHANGED <<mountMutex, umountMutex, staleDeviceRemovalMutex>>

Next ==
    \E t \in Threads :
        \/ CallUnmountMultipathDevice(t) /\ UNCHANGED <<iscsiVars, tuneVars>>
        \/ CallKillProcessesUsingMountPoints(t) /\ UNCHANGED <<iscsiVars, tuneVars>>
        \/ CallFlushMultipathDevice(t) /\ UNCHANGED <<iscsiVars, tuneVars>>
        \/ FindLock(t) /\ UNCHANGED <<iscsiVars, tuneVars>>
        \/ FindExec(t) /\ UNCHANGED <<iscsiVars, tuneVars>>
        \/ UmountLock(t) /\ UNCHANGED <<iscsiVars, tuneVars>>
        \/ Unmount(t) /\ UNCHANGED <<iscsiVars, tuneVars>>
        \/ KillLock(t) /\ UNCHANGED <<iscsiVars, tuneVars>>
        \/ KillExec(t) /\ UNCHANGED <<iscsiVars, tuneVars>>
        \/ Retry(t) /\ UNCHANGED <<iscsiVars, tuneVars>>
        \/ FlushLock(t) /\ UNCHANGED <<iscsiVars, tuneVars>>
        \/ FlushExec(t) /\ UNCHANGED <<iscsiVars, tuneVars>>
        \/ DisplayDeviceInfo(t) /\ UNCHANGED <<iscsiVars, tuneVars>>
        \/ ListTheProcessesUsingDevice(t) /\ UNCHANGED <<iscsiVars, tuneVars>>
        \/ ForceDeleteMultipathDevice(t) /\ UNCHANGED <<iscsiVars, tuneVars>>
        \/ Return(t) /\ UNCHANGED <<iscsiVars, tuneVars>>

Spec == Init /\ [][Next]_vars

----------------------------------------------------------------------------
\* Vocabulary of the properties.

Unmounting(t) == op[t] = "UnmountMultipathDevice"
Flushing(t)   == op[t] = "FlushMultipathDevice"
Finished(t)   == pc[t] \in {"done", "panicked"}
InProgress(t) == pc[t] \notin {"idle", "done", "panicked"}

\* Inside the unmount-execute/kill/retry loop of UnmountMultipathDevice.
InUnmountLoop(t) ==
    Unmounting(t) /\ pc[t] \in {"unmount", "kill_lock", "kill_exec", "retry"}

\* Inside the body of KillProcessesUsingMountPoints.
InKillBody(t) == pc[t] = "kill_exec"

\* Inside the flush/diagnostics/force-remove sequence of FlushMultipathDevice.
InFlushSequence(t) ==
    pc[t] \in {"flush_exec", "display_info", "list_processes", "force_delete"}

\* The positions in calls[t] of the runs of cmd at loop position i.
Runs(t, cmd, i) ==
    {k \in DOMAIN calls[t] : calls[t][k].cmd = cmd /\ calls[t][k].at = i}

Count(t, cmd, i) == Cardinality(Runs(t, cmd, i))

\* The result of the n-th run (n = 1, 2) of cmd at loop position i, or "none".
Result(t, cmd, i, n) ==
    LET ks == Runs(t, cmd, i)
    IN  IF Cardinality(ks) < n THEN "none"
        ELSE LET k == CHOOSE k \in ks : Cardinality({j \in ks : j < k}) = n - 1
             IN  calls[t][k].res

Positions(t) == 1..Len(mountPoints[t])

----------------------------------------------------------------------------
\* C1 (as stated): no flush/diagnostics/force-remove step of
\* FlushMultipathDevice for an alias is in execution while a call of
\* UnmountMultipathDevice for the same alias is in progress.
C1_NoFlushWhileUnmountInProgress ==
    \A t1, t2 \in Threads :
        (Unmounting(t1) /\ InProgress(t1) /\ Flushing(t2) /\ arg[t1] = arg[t2])
            => ~InFlushSequence(t2)

\* C1 (amended): no flush/diagnostics/force-remove step for an alias is in
\* execution while a call of UnmountMultipathDevice for the same alias is
\* inside KillProcessesUsingMountPoints; the other steps of the unmount are
\* not ordered against the flush.
C1_NoFlushWhileUnmountKills ==
    \A t1, t2 \in Threads :
        (Unmounting(t1) /\ InKillBody(t1) /\ Flushing(t2) /\ arg[t1] = arg[t2])
            => ~InFlushSequence(t2)

\* An unmount of an alias is killing processes while a flush of the same
\* alias waits for staleDeviceRemovalMutex.
C1_Witness ==
    \E t1, t2 \in Threads :
        /\ Unmounting(t1) /\ InKillBody(t1)
        /\ Flushing(t2) /\ arg[t1] = arg[t2] /\ pc[t2] = "flush_lock"

\* C2: for a mount point whose first unmount fails, whose kill succeeds and
\* whose retried unmount succeeds, the kill ran exactly once and the call
\* went on (to the next mount point, or to the end); a call that ended with
\* every mount point unmounted returned nil.
C2_RetrySuccessContinues ==
    \A t \in Threads : Unmounting(t) =>
        /\ \A i \in Positions(t) :
             ( /\ Result(t, "umount", i, 1) \in {"err", "rc"}
               /\ Result(t, "kill", i, 1) = "ok"
               /\ Result(t, "umount", i, 2) = "ok" )
             => /\ Count(t, "kill", i) = 1
                /\ IF i < Len(mountPoints[t]) THEN idx[t] > i
                   ELSE pc[t] = "done" /\ ret[t] = Nil
        /\ ( /\ Finished(t) /\ mountPoints[t] /= <<>>
             /\ \A i \in Positions(t) :
                  \E n \in {1, 2} : Result(t, "umount", i, n) = "ok" )
           => pc[t] = "done" /\ ret[t] = Nil

\* A call over two mount points returned nil after the first mount point
\* needed the kill and the retry.
C2_Witness ==
    \E t \in Threads :
        /\ Unmounting(t) /\ pc[t] = "done" /\ ret[t] = Nil
        /\ Len(mountPoints[t]) = 2
        /\ Result(t, "umount", 1, 1) = "err"
        /\ Result(t, "kill", 1, 1) = "ok"
        /\ Result(t, "umount", 1, 2) = "ok"
        /\ Result(t, "umount", 2, 1) = "ok"

\* C3 (as stated), for a first unmount that returned an error: in a finished
\* call the unmount of that mount point was retried exactly once; no mount
\* point is unmount-attempted more than twice or killed more than once.
C3_FailedUnmountRetriedOnce ==
    \A t \in Threads : Unmounting(t) =>
        \A i \in Positions(t) :
            /\ (Finished(t) /\ Result(t, "umount", i, 1) = "err")
                 => Count(t, "umount", i) = 2
            /\ Count(t, "umount", i) <= 2
            /\ Count(t, "kill", i) <= 1

\* C3 (amended): when the first unmount of a mount point fails and
\* KillProcessesUsingMountPoints then succeeds, the unmount is retried exactly
\* once; when the kill fails the call returns an error without a retry; no
\* mount point is unmount-attempted more than twice or killed more than once,
\* and a second attempt only ever follows a successful kill.
C3_RetriedOnceAfterKill ==
    \A t \in Threads : Unmounting(t) =>
        \A i \in Positions(t) :
            /\ ( /\ Finished(t)
                 /\ Result(t, "umount", i, 1) \in {"err", "rc"}
                 /\ Result(t, "kill", i, 1) = "ok" )
               => Count(t, "umount", i) = 2
            /\ Result(t, "kill", i, 1) = "err"
               => /\ Count(t, "umount", i) = 1
                  /\ pc[t] = "done" /\ ret[t] /= Nil
            /\ Count(t, "umount", i) = 2 => Result(t, "kill", i, 1) = "ok"
            /\ Count(t, "umount", i) <= 2
            /\ Count(t, "kill", i) <= 1

\* A finished call whose second mount point was unmount-attempted twice, the
\* retry failing as well.
C3_Witness ==
    \E t \in Threads :
        /\ Unmounting(t) /\ Finished(t)
        /\ Result(t, "umount", 2, 1) = "err"
        /\ Result(t, "kill", 2, 1) = "ok"
        /\ Result(t, "umount", 2, 2) = "err"
        /\ Count(t, "umount", 2) = 2

\* C4: once the retried unmount of a mount point has failed, the call has
\* returned a non-nil error and no later mount point was unmount-attempted
\* or had its processes killed.
C4_RetryFailureReturnsError ==
    \A t \in Threads : Unmounting(t) =>
        \A i \in Positions(t) :
            Result(t, "umount", i, 2) \in {"err", "rc"}
                => /\ pc[t] = "done" /\ ret[t] /= Nil
                   /\ \A k \in DOMAIN calls[t] : calls[t][k].at <= i

\* C5: when the discovery succeeds and finds no mount point, the call has
\* returned nil without acquiring umountMutex and without running unmount or
\* KillProcessesUsingMountPoints.
C5_NoMountPointsReturnsNil ==
    \A t \in Threads :
        ( /\ Unmounting(t)
          /\ Result(t, "mount", 0, 1) = "ok"
          /\ mountPoints[t] = <<>> )
        => /\ pc[t] = "done" /\ ret[t] = Nil
           /\ "umountMutex" \notin locked[t]
           /\ "staleDeviceRemovalMutex" \notin locked[t]
           /\ t \notin umountMutex
           /\ \A k \in DOMAIN calls[t] : calls[t][k].cmd \notin {"umount", "kill"}

\* A call whose discovery succeeded with no mount point has returned.
C5_Witness ==
    \E t \in Threads :
        /\ Unmounting(t) /\ pc[t] = "done"
        /\ Result(t, "mount", 0, 1) = "ok"
        /\ mountPoints[t] = <<>>
        /\ locked[t] = {"mountMutex"}

\* The commands whose failure the returned error carries.
Causes(e) == {e.cause} \ {"nil"}

\* C6 (as stated): when the graceful flush fails the forced removal is
\* attempted exactly once; if it fails too, the returned error names the alias
\* and references both failure causes.
C6_ErrorReferencesBothCauses ==
    \A t \in Threads :
        (Flushing(t) /\ pc[t] = "done" /\ Result(t, "multipath -f", 0, 1) = "err")
        => /\ Count(t, "dmsetup remove -f", 0) = 1
           /\ Result(t, "dmsetup remove -f", 0, 1) = "err"
              => /\ ret[t].name = arg[t]
                 /\ {"multipath -f", "dmsetup remove -f"} \subseteq Causes(ret[t])

\* C6 (amended): when the graceful flush fails the forced removal is
\* attempted exactly once, and never otherwise; if it fails too, the returned
\* error says that the removal by force failed as well, names the alias and
\* carries the cause of the forced-removal failure only (the cause of the
\* graceful-flush failure is logged, not returned).
C6_ErrorNamesAliasAndForceCause ==
    \A t \in Threads : Flushing(t) =>
        /\ Count(t, "dmsetup remove -f", 0) <= 1
        /\ Result(t, "multipath -f", 0, 1) /= "err"
           => Count(t, "dmsetup remove -f", 0) = 0
        /\ (pc[t] = "done" /\ Result(t, "multipath -f", 0, 1) = "err")
           => /\ Count(t, "dmsetup remove -f", 0) = 1
              /\ Result(t, "dmsetup remove -f", 0, 1) = "err"
                 => /\ ret[t].name = arg[t]
                    /\ ret[t].text = "Unable to remove the multipath device by force as well"
                    /\ Causes(ret[t]) = {"dmsetup remove -f"}

\* A flush returned after both the graceful flush and the forced removal failed.
C6_Witness ==
    \E t \in Threads :
        /\ Flushing(t) /\ pc[t] = "done"
        /\ Result(t, "multipath -f", 0, 1) = "err"
        /\ Result(t, "dmsetup remove -f", 0, 1) = "err"
        /\ ret[t] /= Nil

\* C7: when the graceful flush succeeds the call returns nil and neither the
\* diagnostics nor the forced removal run; when it fails, the forced removal is
\* attempted whatever the diagnostics return, and when the forced removal
\* succeeds the call returns nil; no diagnostic error is ever returned.
C7_DiagnosticsNeverPropagate ==
    \A t \in Threads : Flushing(t) =>
        /\ Result(t, "multipath -f", 0, 1) = "ok"
           => /\ pc[t] = "done" /\ ret[t] = Nil
              /\ Len(calls[t]) = 1
        /\ (pc[t] = "done" /\ Result(t, "multipath -f", 0, 1) = "err")
           => /\ Count(t, "dmsetup info", 0) = 1
              /\ Count(t, "fuser", 0) = 1
              /\ Count(t, "dmsetup remove -f", 0) = 1
              /\ Result(t, "dmsetup remove -f", 0, 1) = "ok" => ret[t] = Nil
        /\ Causes(ret[t]) \cap {"dmsetup info", "fuser"} = {}

\* A flush returned nil after the graceful flush and both diagnostics failed
\* and the forced removal succeeded.
C7_Witness ==
    \E t \in Threads :
        /\ Flushing(t) /\ pc[t] = "done" /\ ret[t] = Nil
        /\ Result(t, "multipath -f", 0, 1) = "err"
        /\ Result(t, "dmsetup info", 0, 1) = "err"
        /\ Result(t, "fuser", 0, 1) = "err"
        /\ Result(t, "dmsetup remove -f", 0, 1) = "ok"

\* C8: at most one caller at a time is inside the unmount/kill/retry loop of
\* UnmountMultipathDevice, and it is the holder of umountMutex.
C8_UnmountLoopsSerialized ==
    /\ Cardinality({t \in Threads : InUnmountLoop(t)}) <= 1
    /\ \A t \in Threads : InUnmountLoop(t) => umountMutex = {t}

\* One caller is in the retry of its loop while another, for the same or
\* another alias, waits for umountMutex.
C8_Witness ==
    \E t1, t2 \in Threads :
        /\ InUnmountLoop(t1) /\ pc[t1] = "retry"
        /\ Unmounting(t2) /\ pc[t2] = "umount_lock"

\* C9: at most one thread at a time is inside the body of
\* KillProcessesUsingMountPoints or inside the flush/diagnostics/force-remove
\* sequence of FlushMultipathDevice.
C9_KillAndFlushExclusive ==
    Cardinality({t \in Threads : InKillBody(t) \/ InFlushSequence(t)}) <= 1

\* A direct caller of KillProcessesUsingMountPoints is inside its body while
\* a flush waits for staleDeviceRemovalMutex.
C9_Witness ==
    \E t1, t2 \in Threads :
        /\ op[t1] = "KillProcessesUsingMountPoints" /\ InKillBody(t1)
        /\ Flushing(t2) /\ pc[t2] = "flush_lock"

\* C10: no thread is about to acquire a mutex that it already holds.
C10_NoReacquire ==
    \A t \in Threads :
        /\ pc[t] = "find_lock" => t \notin mountMutex
        /\ pc[t] = "umount_lock" => t \notin umountMutex
        /\ pc[t] \in {"kill_lock", "flush_lock"} => t \notin staleDeviceRemovalMutex

\* A thread holding umountMutex is about to acquire staleDeviceRemovalMutex,
\* which another thread holds.
C10_Witness ==
    \E t1, t2 \in Threads :
        /\ pc[t1] = "kill_lock" /\ umountMutex = {t1}
        /\ staleDeviceRemovalMutex = {t2}


----------------------------------------------------------------------------
\* iSCSI target resolution: getAllDeviceDetails, getIscsiTarget and
\* getTargetPortals.

MaxDisks == 2

\* An iscsidsc.ISCSI_TARGET_MAPPING: the fields getIscsiTarget reads.
Mapping(name, initiator, target, bus) ==
    [TargetName |-> name, InitiatorName |-> initiator, OSTargetNumber |-> target,
     OSBusNumber |-> bus]

\* What ReportActiveIScsiTargetMappings can hand the pass; the empty list
\* is also what the pass is left with when the enumeration fails.
MappingLists ==
    { <<>>,
      << Mapping("iqn.a", "init1", 0, 0), Mapping("iqn.b", "init1", 1, 0),
         Mapping("iqn.a", "init2", 1, 0) >>,
      << Mapping("iqn.a", "init1", 1, 1), Mapping("iqn.b", "init1", 0, 1),
         Mapping("iqn.b", "init2", 0, 1) >> }

NotFound == [text |-> "NotFound", name |-> <<>>,
             cause |-> "unable to locate iSCSI target"]
\* (scsiAddress, err) of ioctl.GetScsiAddress.
ScsiAddresses ==
    {[err |-> CmdErr("GetScsiAddress"), TargetId |-> 0, PathId |-> 0]} \cup
    [err : {Nil}, TargetId : {0, 1}, PathId : {0, 1}]

\* (scope, err) of iscsiPlugin.GetTargetScope.
ScopeResults ==
    { [scope |-> "volume", err |-> Nil], [scope |-> "group", err |-> Nil],
      [scope |-> "", err |-> CmdErr("iscsidsc")] }

\* Portal addresses as text: dotted decimal with its numbers, colon
\* notation with the sixteen bytes it denotes, or any other text.
v4InV6Prefix == <<0, 0, 0, 0, 0, 0, 0, 0, 0, 0, 255, 255>>
Addresses ==
    [v4a    |-> [syntax |-> "dotted", bytes |-> <<10, 0, 0, 1>>],
     v4b    |-> [syntax |-> "dotted", bytes |-> <<10, 0, 0, 2>>],
     bad    |-> [syntax |-> "dotted", bytes |-> <<10, 0, 0, 256>>],
     v6     |-> [syntax |-> "colon",
                 bytes |-> <<254, 128, 0, 0, 0, 0, 0, 0, 0, 0, 0, 0, 0, 0, 0, 1>>],
     mapped |-> [syntax |-> "colon", bytes |-> v4InV6Prefix \o <<10, 0, 0, 3>>],
     host   |-> [syntax |-> "other", bytes |-> <<>>]]

Portal(address, socket) == [Address |-> address, Socket |-> socket]

\* (targetPortals, err) of iscsidsc.ReportIScsiTargetPortals.
PortalResults ==
    { [list |-> <<>>, err |-> CmdErr("iscsidsc")],
      [list |-> <<>>, err |-> Nil],
      [list |-> << Portal(Addresses.v6, 3260), Portal(Addresses.host, 3260) >>, err |-> Nil],
      [list |-> << Portal(Addresses.v4b, 3260), Portal(Addresses.v6, 3260),
                   Portal(Addresses.v4a, 3261), Portal(Addresses.bad, 3260),
                   Portal(Addresses.v4b, 3260) >>, err |-> Nil],
      [list |-> << Portal(Addresses.v4a, 3260), Portal(Addresses.mapped, 3260) >>,
       err |-> Nil] }

\* net.ParseIP: the 16-byte form of the address, <<>> for nil.
ParseIP(address) ==
    IF address.syntax = "dotted"
    THEN IF \A i \in 1..Len(address.bytes) : address.bytes[i] <= 255
         THEN v4InV6Prefix \o address.bytes
         ELSE <<>>
    ELSE IF address.syntax = "colon" THEN address.bytes
    ELSE <<>>

\* net.IP.To4: the 4-byte form of an IPv4 address, <<>> for nil.
To4(ip) ==
    IF Len(ip) = 4 THEN ip
    ELSE IF Len(ip) = 16 /\ SubSeq(ip, 1, 12) = v4InV6Prefix THEN SubSeq(ip, 13, 16)
    ELSE <<>>

\* strconv.Itoa of a non-negative number.
RECURSIVE Itoa(_)
Itoa(n) ==
    IF n < 10 THEN <<CHOOSE d \in Digits : DigitVal[d] = n>>
    ELSE Itoa(n \div 10) \o <<CHOOSE d \in Digits : DigitVal[d] = n % 10>>

\* A Go slice: nil, or a (possibly empty) list of items.
NilSlice == [isNil |-> TRUE, items |-> <<>>]
Slice(items) == [isNil |-> FALSE, items |-> items]

\* The loop of getTargetPortals over the records of the live query.
RECURSIVE chapiTargetPortals(_)
chapiTargetPortals(targetPortals) ==
    IF targetPortals = <<>> THEN <<>>
    ELSE LET targetPortalWindows == Head(targetPortals)
         IN  (IF To4(ParseIP(targetPortalWindows.Address)) /= <<>>
              THEN << [Address |-> targetPortalWindows.Address,
                       Port |-> Itoa(targetPortalWindows.Socket)] >>
              ELSE <<>>) \o chapiTargetPortals(Tail(targetPortals))

getTargetPortals(live) ==
    IF live.err /= Nil THEN [portals |-> NilSlice, err |-> live.err]
    ELSE [portals |-> Slice(chapiTargetPortals(live.list)), err |-> Nil]

Matches(targetMapping, scsiAddress) ==
    /\ targetMapping.OSTargetNumber = scsiAddress.TargetId
    /\ targetMapping.OSBusNumber = scsiAddress.PathId

\* The mapping the loop of getIscsiTarget stops at (0: it runs to the end).
RECURSIVE FirstMatch_LastWins(_, _, _)
FirstMatch_LastWins(mappings, scsiAddress, i) ==
    IF i > Len(mappings) THEN 0
    ELSE LET later == FirstMatch_LastWins(mappings, scsiAddress, i + 1)
         IN  IF later /= 0 THEN later
             ELSE IF Matches(mappings[i], scsiAddress) THEN i ELSE 0
RECURSIVE FirstMatch(_, _, _)
FirstMatch(mappings, scsiAddress, i) ==
    IF i > Len(mappings) THEN 0
    ELSE IF Matches(mappings[i], scsiAddress) THEN i
    ELSE FirstMatch(mappings, scsiAddress, i + 1)

\* The process-wide target type cache: a miss reads as the empty string.
GetTargetType(cache, name) == IF name \in DOMAIN cache THEN cache[name] ELSE ""
SetTargetType(cache, name, scope) ==
    [n \in DOMAIN cache \cup {name} |-> IF n = name THEN scope ELSE cache[n]]

NoQuery == [issued |-> FALSE]
Query(args, live) == [issued |-> TRUE, args |-> args, result |-> live]

\* Scope of the target: from the cache, else from the live query, which is
\* cached when it gave a scope; the query's error is dropped.
ResolveScope_CachesEmpty(typeCache, name, live) ==
    LET cached == GetTargetType(typeCache, name)
    IN  IF cached /= "" THEN [scope |-> cached, cache |-> typeCache, query |-> NoQuery]
        ELSE [scope |-> live.scope,
              cache |-> SetTargetType(typeCache, name, live.scope),
              query |-> Query(<<name>>, live)]
ResolveScope(typeCache, name, live) ==
    LET cached == GetTargetType(typeCache, name)
    IN  IF cached /= "" THEN [scope |-> cached, cache |-> typeCache, query |-> NoQuery]
        ELSE [scope |-> live.scope,
              cache |-> IF live.scope /= ""
                        THEN SetTargetType(typeCache, name, live.scope)
                        ELSE typeCache,
              query |-> Query(<<name>>, live)]

\* Portals of the target: from the pass's map, else from getTargetPortals,
\* stored when it gave a non-nil slice; its error is dropped.
ResolvePortals_EmptyIsMiss(portalCache, targetMapping, live) ==
    LET name   == targetMapping.TargetName
        cached == IF name \in DOMAIN portalCache THEN portalCache[name] ELSE NilSlice
        fresh  == getTargetPortals(live)
    IN  IF cached.items /= <<>>
        THEN [portals |-> cached, cache |-> portalCache, query |-> NoQuery, err |-> Nil]
        ELSE [portals |-> fresh.portals,
              cache |-> IF fresh.portals.items /= <<>>
                        THEN [n \in DOMAIN portalCache \cup {name} |->
                                 IF n = name THEN fresh.portals ELSE portalCache[n]]
                        ELSE portalCache,
              query |-> Query(<<targetMapping.InitiatorName, name>>, live), err |-> fresh.err]
ResolvePortals(portalCache, targetMapping, live) ==
    LET name   == targetMapping.TargetName
        cached == IF name \in DOMAIN portalCache THEN portalCache[name] ELSE NilSlice
        fresh  == getTargetPortals(live)
    IN  IF ~cached.isNil
        THEN [portals |-> cached, cache |-> portalCache, query |-> NoQuery, err |-> Nil]
        ELSE [portals |-> fresh.portals,
              cache |-> IF ~fresh.portals.isNil
                        THEN [n \in DOMAIN portalCache \cup {name} |->
                                 IF n = name THEN fresh.portals ELSE portalCache[n]]
                        ELSE portalCache,
              query |-> Query(<<targetMapping.InitiatorName, name>>, live), err |-> fresh.err]

NoTarget == [Name |-> "", TargetScope |-> "", TargetPortals |-> NilSlice]

\* getIscsiTarget: the target and error it returns, the caches it leaves,
\* and the live queries it issued.
getIscsiTarget_FailsOnPortalError(scsiAddress, mappings, typeCache, portalCache, liveScope, livePortals) ==
    LET match == FirstMatch(mappings, scsiAddress, 1)
        name  == mappings[match].TargetName
        s     == ResolveScope(typeCache, name, liveScope)
        p     == ResolvePortals(portalCache, mappings[match], livePortals)
        none(err) == [target |-> NoTarget, err |-> err, typeCache |-> typeCache,
                      portalCache |-> portalCache, scopeQuery |-> NoQuery,
                      portalQuery |-> NoQuery]
    IN  IF scsiAddress.err /= Nil THEN none(scsiAddress.err)
        ELSE IF match = 0 THEN none(NotFound)
        ELSE [target |-> [Name |-> name, TargetScope |-> s.scope,
                          TargetPortals |-> p.portals],
              err |-> p.err, typeCache |-> s.cache, portalCache |-> p.cache,
              scopeQuery |-> s.query, portalQuery |-> p.query]
getIscsiTarget(scsiAddress, mappings, typeCache, portalCache, liveScope, livePortals) ==
    LET match == FirstMatch(mappings, scsiAddress, 1)
        name  == mappings[match].TargetName
        s     == ResolveScope(typeCache, name, liveScope)
        p     == ResolvePortals(portalCache, mappings[match], livePortals)
        none(err) == [target |-> NoTarget, err |-> err, typeCache |-> typeCache,
                      portalCache |-> portalCache, scopeQuery |-> NoQuery,
                      portalQuery |-> NoQuery]
    IN  IF scsiAddress.err /= Nil THEN none(scsiAddress.err)
        ELSE IF match = 0 THEN none(NotFound)
        ELSE [target |-> [Name |-> name, TargetScope |-> s.scope,
                          TargetPortals |-> p.portals],
              err |-> Nil, typeCache |-> s.cache, portalCache |-> p.cache,
              scopeQuery |-> s.query, portalQuery |-> p.query]

RECURSIVE DiskLists(_)
DiskLists(n) ==
    IF n = 0 THEN {<<>>}
    ELSE DiskLists(n - 1) \cup
         {Append(d, b) : d \in {x \in DiskLists(n - 1) : Len(x) = n - 1}, b \in {"iSCSI", "FC"}}

\* getAllDeviceDetails up to its device loop: the disks are enumerated, the
\* target mappings are enumerated if one of them is an iSCSI disk, and the
\* pass gets a fresh portal map.
StartPass ==
    /\ disksLeft = <<>>
    /\ \E nimbleDisks \in DiskLists(MaxDisks) :
          /\ disksLeft' = nimbleDisks
          /\ IF \E i \in 1..Len(nimbleDisks) : nimbleDisks[i] = "iSCSI"
             THEN \E m \in MappingLists : targetMappings' = m
             ELSE targetMappings' = <<>>
    /\ cachedTargetPortals' = EmptyMap
    /\ lastTarget' = NoCall
    /\ UNCHANGED <<targetTypeCache, iscsiPlugin>>

\* One iSCSI disk of the device loop, the plugin having an iSCSI plugin.
EnumerateIscsiTarget ==
    /\ disksLeft /= <<>>
    /\ Head(disksLeft) = "iSCSI"
    /\ iscsiPlugin
    /\ \E scsiAddress \in ScsiAddresses, liveScope \in ScopeResults,
          livePortals \in PortalResults :
          LET r == getIscsiTarget(scsiAddress, targetMappings, targetTypeCache,
                                  cachedTargetPortals, liveScope, livePortals)
          IN  /\ targetTypeCache' = r.typeCache
              /\ cachedTargetPortals' = r.portalCache
              /\ lastTarget' = [called |-> TRUE, scsiAddress |-> scsiAddress,
                                target |-> r.target, err |-> r.err,
                                scopeQuery |-> r.scopeQuery,
                                portalQuery |-> r.portalQuery]
    /\ disksLeft' = Tail(disksLeft)
    /\ UNCHANGED <<targetMappings, iscsiPlugin>>

\* A disk the loop does not resolve a target for: not an iSCSI disk, or
\* an iSCSI disk that is skipped because there is no iSCSI plugin.
SkipDisk ==
    /\ disksLeft /= <<>>
    /\ Head(disksLeft) /= "iSCSI" \/ ~iscsiPlugin
    /\ disksLeft' = Tail(disksLeft)
    /\ lastTarget' = NoCall
    /\ UNCHANGED <<targetTypeCache, cachedTargetPortals, targetMappings, iscsiPlugin>>

InitIscsi ==
    /\ TeardownInit
    /\ targetTypeCache = EmptyMap /\ cachedTargetPortals = EmptyMap
    /\ targetMappings = <<>> /\ disksLeft = <<>> /\ lastTarget = NoCall
    /\ iscsiPlugin \in BOOLEAN
    /\ multipathConf = [state |-> "absent"] /\ hostFacts = "required"
    /\ runs = <<>> /\ applied = NoCall /\ parsed = NoCall
    /\ configure = NoCall /\ removal = NoCall /\ signals = NoCall

NextIscsi ==
    \/ StartPass /\ UNCHANGED <<teardownVars, tuneVars>>
    \/ EnumerateIscsiTarget /\ UNCHANGED <<teardownVars, tuneVars>>
    \/ SkipDisk /\ UNCHANGED <<teardownVars, tuneVars>>

SpecIscsi == InitIscsi /\ [][NextIscsi]_vars

----------------------------------------------------------------------------
\* Vocabulary of the resolver's properties.

\* The last disk of the pass had its target resolved by getIscsiTarget.
Resolved == lastTarget.called
AddressResolved == Resolved /\ lastTarget.scsiAddress.err = Nil
\* Positions of the pass's mappings that have the device's address.
MatchingMappings ==
    {i \in 1..Len(targetMappings) :
        /\ targetMappings[i].OSTargetNumber = lastTarget.scsiAddress.TargetId
        /\ targetMappings[i].OSBusNumber = lastTarget.scsiAddress.PathId}
Matched == AddressResolved /\ MatchingMappings /= {}

\* C11: once the SCSI address is resolved, getIscsiTarget returns a target
\* built from the first mapping in list order that has the device's target
\* and bus numbers (its name, and live portals asked for its initiator and
\* name), whatever mappings match after it; when no mapping matches it
\* returns the NotFound error and no target.
C11_FirstMatchingMappingOrNotFound ==
    AddressResolved =>
        IF MatchingMappings = {}
        THEN lastTarget.err = NotFound /\ lastTarget.target = NoTarget
        ELSE \E i \in MatchingMappings :
                /\ \A j \in MatchingMappings : i <= j
                /\ lastTarget.err = Nil
                /\ lastTarget.target.Name = targetMappings[i].TargetName
                /\ lastTarget.scopeQuery.issued =>
                        lastTarget.scopeQuery.args = <<targetMappings[i].TargetName>>
                /\ lastTarget.portalQuery.issued =>
                        lastTarget.portalQuery.args =
                            <<targetMappings[i].InitiatorName, targetMappings[i].TargetName>>

\* A later mapping with another target name matches too, and the portals
\* were asked for live.
C11_Witness ==
    /\ Matched
    /\ \E i, j \in MatchingMappings :
          i < j /\ targetMappings[i].TargetName /= targetMappings[j].TargetName
    /\ lastTarget.portalQuery.issued
C11_WitnessNotFound ==
    AddressResolved /\ targetMappings /= <<>> /\ MatchingMappings = {}

ScopeQueryFailed == lastTarget.scopeQuery.issued /\ lastTarget.scopeQuery.result.err /= Nil
PortalQueryFailed == lastTarget.portalQuery.issued /\ lastTarget.portalQuery.result.err /= Nil

\* C12: getIscsiTarget returns an error exactly when the SCSI address lookup
\* failed (that error) or no mapping matched (NotFound); when the address
\* resolves and a mapping matches it returns a target and no error, with an
\* empty scope if the live scope query failed and no portals if the live
\* portal query failed.
C12_FailsOnlyOnAddressOrMatch ==
    Resolved =>
        /\ lastTarget.err /= Nil <=> ~Matched
        /\ ~AddressResolved => lastTarget.err = lastTarget.scsiAddress.err
        /\ Matched =>
              /\ lastTarget.target /= NoTarget
              /\ ScopeQueryFailed => lastTarget.target.TargetScope = ""
              /\ PortalQueryFailed => lastTarget.target.TargetPortals.items = <<>>

\* A mapping matched and both live queries failed.
C12_Witness == Matched /\ ScopeQueryFailed /\ PortalQueryFailed /\ lastTarget.err = Nil

\* A step of the pass in which getIscsiTarget ran for a disk.
ResolveStep == disksLeft /= <<>> /\ disksLeft' = Tail(disksLeft) /\ Resolved'

\* C13: in every getIscsiTarget call, a target whose scope is in the target
\* type cache gets that scope with no live scope query and the cache is left
\* as it was; on a miss the call goes on to the live query (the miss is not
\* an error) and the cache gains an entry only for that target and only a
\* non-empty scope the query returned; stored scopes are non-empty and are
\* never changed or removed.
C13_ScopeCachedOnceNonEmpty ==
    [][ /\ \A n \in DOMAIN targetTypeCache :
              n \in DOMAIN targetTypeCache' /\ targetTypeCache'[n] = targetTypeCache[n]
        /\ \A n \in DOMAIN targetTypeCache' : targetTypeCache'[n] /= ""
        /\ targetTypeCache' /= targetTypeCache => ResolveStep /\ Matched'
        /\ ResolveStep /\ Matched' =>
              LET name  == lastTarget'.target.Name
                  query == lastTarget'.scopeQuery
              IN  IF name \in DOMAIN targetTypeCache
                  THEN /\ ~query.issued
                       /\ lastTarget'.target.TargetScope = targetTypeCache[name]
                       /\ targetTypeCache' = targetTypeCache
                  ELSE /\ query.issued
                       /\ lastTarget'.err = Nil
                       /\ lastTarget'.target.TargetScope = query.result.scope
                       /\ DOMAIN targetTypeCache' =
                              IF query.result.scope /= ""
                              THEN DOMAIN targetTypeCache \cup {name}
                              ELSE DOMAIN targetTypeCache
                       /\ query.result.scope /= "" =>
                              targetTypeCache'[name] = query.result.scope
      ]_vars

\* A target's scope was served from the cache, which an earlier call filled.
C13_Witness ==
    /\ Matched
    /\ ~lastTarget.scopeQuery.issued
    /\ lastTarget.target.TargetScope /= ""
    /\ lastTarget.target.TargetScope = targetTypeCache[lastTarget.target.Name]

\* C14: within one pass of getAllDeviceDetails, a target whose portals are in
\* the pass's map gets that list (an empty list too) with no live portal
\* query, and the map keeps its entries until the pass ends; on a miss the
\* live query is issued, its filtered list is stored for the target when the
\* query succeeded (also when the list is empty) and nothing is stored when
\* it failed.
C14_PortalsQueriedOncePerPass ==
    [][ /\ disksLeft /= <<>> =>
              \A n \in DOMAIN cachedTargetPortals :
                  /\ n \in DOMAIN cachedTargetPortals'
                  /\ cachedTargetPortals'[n] = cachedTargetPortals[n]
        /\ ResolveStep /\ ~Matched' => cachedTargetPortals' = cachedTargetPortals
        /\ ResolveStep /\ Matched' =>
              LET name  == lastTarget'.target.Name
                  query == lastTarget'.portalQuery
              IN  IF name \in DOMAIN cachedTargetPortals
                  THEN /\ ~query.issued
                       /\ lastTarget'.target.TargetPortals = cachedTargetPortals[name]
                       /\ cachedTargetPortals' = cachedTargetPortals
                  ELSE /\ query.issued
                       /\ IF query.result.err = Nil
                          THEN /\ DOMAIN cachedTargetPortals' =
                                      DOMAIN cachedTargetPortals \cup {name}
                               /\ cachedTargetPortals'[name] =
                                      lastTarget'.target.TargetPortals
                               /\ lastTarget'.target.TargetPortals =
                                      getTargetPortals(query.result).portals
                          ELSE cachedTargetPortals' = cachedTargetPortals
      ]_vars

\* A later disk of the pass got the empty filtered list of its target from
\* the pass's map, with no live query.
C14_Witness ==
    /\ Matched
    /\ ~lastTarget.portalQuery.issued
    /\ lastTarget.target.Name \in DOMAIN cachedTargetPortals
    /\ lastTarget.target.TargetPortals = Slice(<<>>)

\* The address is written as an IPv4 literal: four decimal numbers of at
\* most 255 separated by dots.
IsIPv4Literal(address) ==
    /\ address.syntax = "dotted"
    /\ Len(address.bytes) = 4
    /\ \A i \in 1..4 : address.bytes[i] \in 0..255
IPv4LiteralRecords(list) ==
    LET kept == SelectSeq(list, LAMBDA r : IsIPv4Literal(r.Address))
    IN  [i \in 1..Len(kept) |->
            [Address |-> kept[i].Address, Port |-> Itoa(kept[i].Socket)]]

\* C15: when the live portal query succeeds, the portals getTargetPortals
\* returns are exactly the records of the query whose address is an IPv4
\* literal, in their order.
C15_OnlyIPv4Literals ==
    Matched /\ lastTarget.portalQuery.issued /\ lastTarget.portalQuery.result.err = Nil =>
        lastTarget.target.TargetPortals.items =
            IPv4LiteralRecords(lastTarget.portalQuery.result.list)

----------------------------------------------------------------------------
\* Multipath recommendations: GetMultipathRecommendations,
\* getMultipathDeviceScopeRecommendations and
\* getMultipathDeviceParamRecommendation.

MaxRuns == 2

\* Text is a sequence of characters; these are the ones the code tells apart.
nl == "\n"
quote == "\""
IsSpace(c) == c \in {" ", "\t", "\n", "\r"}

\* strings.TrimSpace.
TrimSpace(str) ==
    LET solid == {i \in 1..Len(str) : ~IsSpace(str[i])}
    IN  IF solid = {} THEN <<>>
        ELSE SubSeq(str, CHOOSE i \in solid : \A j \in solid : i <= j,
                         CHOOSE i \in solid : \A j \in solid : i >= j)

\* strings.Split(str, "\n").
RECURSIVE Split(_)
Split(str) ==
    LET breaks == {i \in 1..Len(str) : str[i] = nl}
    IN  IF breaks = {} THEN <<str>>
        ELSE LET i == CHOOSE b \in breaks : \A c \in breaks : b <= c
             IN  <<SubSeq(str, 1, i - 1)>> \o Split(SubSeq(str, i + 1, Len(str)))

\* strings.Replace(str, "\"", "", n): the first n double quotes are removed.
RECURSIVE Replace(_, _)
Replace(str, n) ==
    IF str = <<>> \/ n = 0 THEN str
    ELSE IF Head(str) = quote THEN Replace(Tail(str), n - 1)
    ELSE <<Head(str)>> \o Replace(Tail(str), n)

\* multipathParamPattern, \s*(?P<name>.*?)\s+(?P<value>.*), on one line:
\* no match without white space; else the name is the first word after the
\* leading white space and the value is what follows the white space after
\* it. A line with no white space after its first word still matches, by
\* giving up one leading white space character: the name is empty then.
multipathParamPattern(setting) ==
    LET spaces  == {i \in 1..Len(setting) : IsSpace(setting[i])}
        leading == CHOOSE k \in 0..Len(setting) :
                      /\ \A i \in 1..k : i \in spaces
                      /\ k + 1 \notin spaces
        inner   == {i \in spaces : i > leading}
        first   == CHOOSE i \in inner : \A j \in inner : i <= j
        after   == CHOOSE j \in (first + 1)..(Len(setting) + 1) :
                      /\ j \notin spaces
                      /\ \A i \in first..(j - 1) : i \in spaces
    IN  IF spaces = {} THEN [matched |-> FALSE, name |-> <<>>, value |-> <<>>]
        ELSE IF inner = {}
        THEN [matched |-> TRUE, name |-> <<>>,
              value |-> SubSeq(setting, leading + 1, Len(setting))]
        ELSE [matched |-> TRUE, name |-> SubSeq(setting, leading + 1, first - 1),
              value |-> SubSeq(setting, after, Len(setting))]

\* Parameter names and values of the templates and the configuration.
Word ==
    [path_checker |-> <<"p", "c">>,
     no_path_retry |-> <<"n", "r">>,
     tur |-> <<"t", "u", "r">>,
     thirty |-> <<"3", "0">>,
     Nimble |-> <<"N">>,
     ThreePAR |-> <<"P">>,
     find_multipaths |-> <<"f", "m">>,
     vendor |-> <<"v">>,
     yes |-> <<"y", "e", "s">>,
     no |-> <<"n", "o">>,
     strict |-> <<"s", "t">>]

\* getParamToTemplateFieldMap(Multipath, "recommendation", ""): per device
\* type, the recommended value of each parameter.
deviceBlockRecommendationMap ==
    << [DeviceType |-> "Nimble",
        deviceMap |-> [key \in {Word.path_checker, Word.no_path_retry} |->
                          IF key = Word.path_checker THEN Word.tur ELSE Word.thirty]],
       [DeviceType |-> "3PARdata",
        deviceMap |-> [key \in {Word.path_checker} |-> Word.tur]] >>

Recommended == "recommended"
NotRecommended == "not-recommended"

\* The verdict for one parameter (the fields that depend on the inputs).
getMultipathDeviceParamRecommendation(paramKey, currentValue, recommendedValue) ==
    [Parameter |-> paramKey, Value |-> currentValue,
     Recommendation |-> recommendedValue,
     CompliantStatus |-> IF \/ currentValue = recommendedValue
                            \/ Replace(currentValue, 2) = recommendedValue
                         THEN Recommended ELSE NotRecommended]

\* The scan of the block's lines for one key: empty lines and lines the
\* pattern does not match are passed over, the first line whose name is the
\* key ends the scan.
RECURSIVE FindSetting(_, _)
FindSetting(currentSettings, key) ==
    IF currentSettings = <<>> THEN [keyFound |-> FALSE, paramValue |-> <<>>]
    ELSE LET setting == Head(currentSettings)
             result  == multipathParamPattern(setting)
         IN  IF setting /= <<>> /\ result.matched /\ result.name = key
             THEN [keyFound |-> TRUE, paramValue |-> result.value]
             ELSE FindSetting(Tail(currentSettings), key)

\* The verdict getMultipathDeviceScopeRecommendations appends for one key.
KeyRecommendation(currentSettings, key, recommendedValue) ==
    LET found == FindSetting(currentSettings, key)
    IN  IF found.keyFound
        THEN getMultipathDeviceParamRecommendation(key, TrimSpace(found.paramValue),
                                                   recommendedValue)
        ELSE getMultipathDeviceParamRecommendation(key, <<>>, recommendedValue)

\* The orders in which a range over a Go map can visit its keys.
Orders(keys) ==
    {order \in [1..Cardinality(keys) -> keys] :
        \A i, j \in DOMAIN order : order[i] = order[j] => i = j}

\* getMultipathDeviceScopeRecommendations: one DeviceRecommendation per
\* template entry, its verdicts in the order the keys were visited; the
\* error it returns is always nil.
getMultipathDeviceScopeRecommendations(deviceBlock, keyOrder) ==
    LET currentSettings == Split(deviceBlock)
    IN  [index \in DOMAIN deviceBlockRecommendationMap |->
            [DeviceType |-> deviceBlockRecommendationMap[index].DeviceType,
             RecomendArray |->
                 [i \in DOMAIN keyOrder[index] |->
                     KeyRecommendation(currentSettings, keyOrder[index][i],
                         deviceBlockRecommendationMap[index].deviceMap[keyOrder[index][i]])]]]

KeyOrders ==
    {keyOrder \in [DOMAIN deviceBlockRecommendationMap ->
                      UNION {Orders(DOMAIN deviceBlockRecommendationMap[x].deviceMap) :
                                 x \in DOMAIN deviceBlockRecommendationMap}] :
        \A index \in DOMAIN keyOrder :
            keyOrder[index] \in Orders(DOMAIN deviceBlockRecommendationMap[index].deviceMap)}

\* Bodies of device blocks of multipath.conf: what stands between
\* "device {" and its closing brace.
Blocks ==
    [plain |->
        <<nl, " ", "v", " ", quote, "N", quote, nl,
          " ", "p", "c", " ", "t", "u", "r", nl,
          " ", "n", "r", " ", "3", "0", nl>>,
     quoted |->
        <<nl, " ", "v", " ", quote, "N", quote, nl,
          " ", "p", "c", " ", " ", quote, "t", "u", "r", quote, " ", nl,
          " ", "p", "c", " ", "n", "o", nl>>,
     odd |->
        <<nl, "v", " ", quote, "N", quote, nl, nl,
          "n", "r", nl,
          " ", "p", "c", " ", "t", quote, "u", quote, "r", nl>>,
     wrong |->
        <<" ", "v", " ", quote, "N", quote, nl,
          " ", "p", "c", " ", "n", "o", nl,
          " ", "p", "c", " ", "t", "u", "r", nl,
          " ", "n", "r", " ", quote, " ", "3", "0", quote>>,
     threepar |->
        <<nl, " ", "v", " ", quote, "P", quote, nl,
          " ", "p", "c", " ", "t", "u", "r", nl>>,
     other |->
        <<nl, " ", "v", " ", quote, "X", quote, nl,
          " ", "p", "c", " ", "t", "u", "r", nl>>]

\* /etc/multipath.conf: missing, present but unreadable, or a file with the
\* device blocks of its devices section, in file order.
ConfFiles ==
    { [state |-> "absent"], [state |-> "unreadable"], [state |-> "file", blocks |-> <<>>],
      [state |-> "file", blocks |-> <<Blocks.plain, Blocks.threepar>>],
      [state |-> "file", blocks |-> <<Blocks.threepar, Blocks.wrong>>] }
    \cup {[state |-> "file", blocks |-> <<Blocks[b]>>] : b \in DOMAIN Blocks}


\* deviceBlockPattern: vendor -> the text its pattern looks for.
deviceBlockPattern == [v \in {"Nimble", "3par"} |->
                          IF v = "Nimble" THEN Word.Nimble ELSE Word.ThreePAR]

\* A pattern of deviceBlockPattern on the file: the greedy ".*" before
\* "device\s*{" and before the vendor text make it capture the last device
\* block that holds the vendor text, up to its closing brace.
device_block(content, devicePattern) ==
    LET holding == {i \in 1..Len(content.blocks) :
                       Contains(content.blocks[i], devicePattern)}
    IN  IF holding = {} THEN [matched |-> FALSE, text |-> <<>>]
        ELSE [matched |-> TRUE,
              text |-> content.blocks[CHOOSE i \in holding : \A j \in holding : i >= j]]

\* One call of getMultipathDeviceScopeRecommendations from the loop, with
\* the block it was given.
Scope(block, keyOrder) ==
    [settings |-> Slice(getMultipathDeviceScopeRecommendations(block, keyOrder)),
     err |-> Nil, block |-> block]
Failed(err) == [settings |-> NilSlice, err |-> err, block |-> <<>>]

\* The loop of GetMultipathRecommendations over deviceBlockPattern, visited
\* in the given order: a missing file ends the call with the verdicts for
\* the empty block, an unreadable one with the error, and every pass over a
\* readable file overwrites deviceRecommendations.
RECURSIVE PatternLoop_MissingFileFails(_, _, _, _)
PatternLoop_MissingFileFails(conf, order, keyOrder, last) ==
    IF order = <<>> THEN last
    ELSE IF conf.state \in {"absent", "unreadable"} THEN Failed(CmdErr("ReadFile"))
    ELSE LET found == device_block(conf, deviceBlockPattern[Head(order)])
         IN  PatternLoop_MissingFileFails(conf, Tail(order), keyOrder,
                 Scope(IF found.matched THEN TrimSpace(found.text) ELSE <<>>, keyOrder))
RECURSIVE PatternLoop(_, _, _, _)
PatternLoop(conf, order, keyOrder, last) ==
    IF order = <<>> THEN last
    ELSE IF conf.state = "absent" THEN Scope(<<>>, keyOrder)
    ELSE IF conf.state = "unreadable" THEN Failed(CmdErr("ReadFile"))
    ELSE LET found == device_block(conf, deviceBlockPattern[Head(order)])
         IN  PatternLoop(conf, Tail(order), keyOrder,
                 Scope(IF found.matched THEN TrimSpace(found.text) ELSE <<>>, keyOrder))

\* GetMultipathRecommendations, for one order of the range over
\* deviceBlockPattern and one order of the ranges over the template keys.
GetMultipathRecommendationsResult(conf, facts, order, keyOrder) ==
    IF facts = "unknown" THEN Failed(CmdErr("IsVirtualMachine"))
    ELSE IF facts = "not required" THEN Failed(Nil)
    ELSE IF facts = "no templates" THEN Failed(CmdErr("loadTemplateSettings"))
    ELSE PatternLoop(conf, order, keyOrder, Failed(Nil))

GetMultipathRecommendations ==
    /\ Len(runs) < MaxRuns
    /\ \E order \in Orders(DOMAIN deviceBlockPattern), keyOrder \in KeyOrders :
          runs' = Append(runs,
                      [order |-> order,
                       result |-> GetMultipathRecommendationsResult(
                                      multipathConf, hostFacts, order, keyOrder)])
    /\ UNCHANGED <<multipathConf, hostFacts, applied, parsed, configure, removal, signals>>

InitRecommend ==
    /\ TeardownInit
    /\ targetTypeCache = EmptyMap /\ cachedTargetPortals = EmptyMap
    /\ targetMappings = <<>> /\ disksLeft = <<>> /\ lastTarget = NoCall
    /\ iscsiPlugin = TRUE
    /\ multipathConf \in ConfFiles
    /\ hostFacts \in {"required", "not required", "unknown", "no templates"}
    /\ runs = <<>>
    /\ applied = NoCall
    /\ parsed = NoCall
    /\ configure = NoCall
    /\ removal = NoCall
    /\ signals = NoCall

NextRecommend == GetMultipathRecommendations /\ UNCHANGED <<teardownVars, iscsiVars>>

SpecRecommend == InitRecommend /\ [][NextRecommend]_vars

----------------------------------------------------------------------------
\* Vocabulary of the recommendation properties.

\* The runs that produced verdicts.
Verdicts == {i \in DOMAIN runs : ~runs[i].result.settings.isNil}
\* A line of a device block read as "name value": its first word, and what
\* follows that word with the white space around it removed.
Solid(line) == {i \in 1..Len(line) : ~IsSpace(line[i])}
LineName(line) ==
    IF Solid(line) = {} THEN <<>>
    ELSE LET from == CHOOSE i \in Solid(line) : \A j \in Solid(line) : i <= j
             to   == CHOOSE i \in from..Len(line) :
                        /\ \A j \in from..i : j \in Solid(line)
                        /\ (i + 1) \notin Solid(line)
         IN  SubSeq(line, from, to)
LineValue(line) ==
    IF Solid(line) = {} THEN <<>>
    ELSE LET from == CHOOSE i \in Solid(line) : \A j \in Solid(line) : i <= j
         IN  TrimSpace(SubSeq(line, from + Len(LineName(line)), Len(line)))
\* The value without the pair of quotes around it, if it has one.
Unquoted(value) ==
    IF Len(value) >= 2 /\ value[1] = quote /\ value[Len(value)] = quote
    THEN SubSeq(value, 2, Len(value) - 1) ELSE value
\* The lines of the block that name the parameter.
Naming(block, key) ==
    {i \in 1..Len(Split(block)) : LineName(Split(block)[i]) = key}
FirstNaming(block, key) ==
    Split(block)[CHOOSE i \in Naming(block, key) : \A j \in Naming(block, key) : i <= j]
\* The verdicts of a run for one parameter of one template entry.
VerdictsFor(run, index, key) ==
    {i \in DOMAIN run.result.settings.items[index].RecomendArray :
        run.result.settings.items[index].RecomendArray[i].Parameter = key}

\* C16: a run that produces verdicts has exactly one verdict for every
\* template parameter: Recommended when the first line of the device block
\* naming the parameter has the recommended value once the white space and
\* the quotes around the value are ignored, NotRecommended with that line's
\* value as the current value otherwise, and NotRecommended with an empty
\* current value when no line names the parameter.
C16_VerdictIgnoresSurroundingQuotes ==
    \A r \in Verdicts : \A index \in DOMAIN deviceBlockRecommendationMap :
        \A key \in DOMAIN deviceBlockRecommendationMap[index].deviceMap :
            LET block == runs[r].result.block
                V     == deviceBlockRecommendationMap[index].deviceMap[key]
                array == runs[r].result.settings.items[index].RecomendArray
            IN  /\ Cardinality(VerdictsFor(runs[r], index, key)) = 1
                /\ \A i \in VerdictsFor(runs[r], index, key) :
                      IF Naming(block, key) = {}
                      THEN array[i].CompliantStatus = NotRecommended /\ array[i].Value = <<>>
                      ELSE LET live == LineValue(FirstNaming(block, key))
                           IN  IF Unquoted(live) = V
                               THEN array[i].CompliantStatus = Recommended
                               ELSE /\ array[i].CompliantStatus = NotRecommended
                                    /\ array[i].Value = live

\* What a run reports, without the order of the verdicts: whether it failed,
\* and per device type the parameter, current value and status of each verdict.
VerdictSet(run) ==
    [failed |-> run.result.err /= Nil,
     none   |-> run.result.settings.isNil,
     verdicts |->
        UNION {{[DeviceType |-> run.result.settings.items[index].DeviceType,
                 Parameter |-> run.result.settings.items[index].RecomendArray[i].Parameter,
                 Value |-> run.result.settings.items[index].RecomendArray[i].Value,
                 CompliantStatus |->
                     run.result.settings.items[index].RecomendArray[i].CompliantStatus] :
                   i \in DOMAIN run.result.settings.items[index].RecomendArray} :
               index \in DOMAIN run.result.settings.items}]

\* C17: two runs of GetMultipathRecommendations against the same file, the
\* same templates and the same host facts report the same verdicts: the same
\* parameters, current values and statuses per device type.
C17_SameVerdictsTwice ==
    \A i, j \in DOMAIN runs : VerdictSet(runs[i]) = VerdictSet(runs[j])

\* C19: when multipath is required, the templates load and there is no
\* configuration file, the call returns no error and the verdicts for the
\* empty device block: for every device type of the templates, one verdict
\* per parameter, NotRecommended with an empty current value.
C19_MissingFileAllNotRecommended ==
    hostFacts = "required" /\ multipathConf.state = "absent" =>
        \A r \in DOMAIN runs :
            /\ runs[r].result.err = Nil
            /\ ~runs[r].result.settings.isNil
            /\ runs[r].result.block = <<>>
            /\ DOMAIN runs[r].result.settings.items = DOMAIN deviceBlockRecommendationMap
            /\ \A index \in DOMAIN deviceBlockRecommendationMap :
                  LET array == runs[r].result.settings.items[index].RecomendArray
                  IN  /\ \A key \in DOMAIN deviceBlockRecommendationMap[index].deviceMap :
                            Cardinality(VerdictsFor(runs[r], index, key)) = 1
                      /\ \A i \in DOMAIN array :
                            /\ array[i].Parameter \in
                                   DOMAIN deviceBlockRecommendationMap[index].deviceMap
                            /\ array[i].CompliantStatus = NotRecommended
                            /\ array[i].Value = <<>>

\* A call has run on a host that needs multipath and has no configuration file.
C19_Witness ==
    hostFacts = "required" /\ multipathConf.state = "absent" /\ runs /= <<>>

----------------------------------------------------------------------------
\* findMountPointsOfMultipathDevice on the text of the `mount` output.

MaxLines == 2

\* Device names, and lines of the output of `mount`.
MountText ==
    [example |->
        <<"/", "d", "e", "v", "/", "m", "a", "p", "p", "e", "r", "/", "m", "p",
          "a", "t", "h", "a", " ", "/", "d", "a", "t", "a", " ", "e", "x", "t",
          "4", " ", "r", "w">>,
     mpatha |->
        <<"/", "d", "e", "v", "/", "m", "a", "p", "p", "e", "r", "/", "m", "p",
          "a", "t", "h", "a", " ", "o", "n", " ", "/", "d", "a", "t", "a", " ",
          "t", "y", "p", "e", " ", "e", "x", "t", "4", " ", "(", "r", "w", ")">>,
     mpatha1 |->
        <<"/", "d", "e", "v", "/", "m", "a", "p", "p", "e", "r", "/", "m", "p",
          "a", "t", "h", "a", "1", "\t", "o", "n", " ", " ", "/", "l", "o", "g",
          "s", " ", "t", "y", "p", "e", " ", "x", "f", "s", " ", "(", "r", "w",
          ")">>,
     mpathb |->
        <<"/", "d", "e", "v", "/", "m", "a", "p", "p", "e", "r", "/", "m", "p",
          "a", "t", "h", "b", " ", "o", "n", " ", "/", "h", "o", "m", "e", " ",
          "t", "y", "p", "e", " ", "e", "x", "t", "4", " ", "(", "r", "o", ")">>,
     sda |->
        <<"/", "d", "e", "v", "/", "s", "d", "a", "1", " ", "o", "n", " ", "/",
          " ", "t", "y", "p", "e", " ", "e", "x", "t", "4", " ", "(", "r", "w",
          ")">>,
     short |->
        <<"/", "d", "e", "v", "/", "m", "a", "p", "p", "e", "r", "/", "m", "p",
          "a", "t", "h", "a", " ", "o", "n", " ", "/", "d", "a", "t", "a">>,
     blank |->
        <<" ">>,
     alias_mpatha |->
        <<"m", "p", "a", "t", "h", "a">>,
     alias_mpathb |->
        <<"m", "p", "a", "t", "h", "b">>]

RECURSIVE MountTables(_)
MountTables(n) ==
    IF n = 0 THEN {<<>>}
    ELSE MountTables(n - 1) \cup
         {Append(t, l) : t \in {x \in MountTables(n - 1) : Len(x) = n - 1},
                         l \in {MountText[f] : f \in {"example", "mpatha", "mpatha1", "mpathb",
                                                       "sda", "short", "blank"}}}

\* The text `mount` prints for a table: every line ends with a line break.
RECURSIVE MountOutput(_)
MountOutput(table) ==
    IF table = <<>> THEN <<>>
    ELSE Head(table) \o <<nl>> \o MountOutput(Tail(table))

\* strings.Fields: the words of the text, split around white space.
RECURSIVE Fields(_)
Fields(str) ==
    LET solid == {i \in 1..Len(str) : ~IsSpace(str[i])}
    IN  IF solid = {} THEN <<>>
        ELSE LET from == CHOOSE i \in solid : \A j \in solid : i <= j
                 to   == CHOOSE i \in from..Len(str) :
                            /\ \A j \in from..i : j \in solid
                            /\ (i + 1) \notin solid
             IN  <<SubSeq(str, from, to)>> \o Fields(SubSeq(str, to + 1, Len(str)))

\* Lines 871-884: the output is split into lines, every line into fields.
mountLines(out) == [i \in DOMAIN Split(out) |-> Fields(Split(out)[i])]

\* One call of findMountPointsOfMultipathDevice: mountMutex is taken and
\* released, `mount` runs, its output is parsed. The call keeps no state, so
\* one call per behaviour covers every call.
findMountPointsOfMultipathDevice ==
    /\ mountMutex = {}
    /\ ~parsed.called
    /\ \E multipathDevice \in {MountText.alias_mpatha, MountText.alias_mpathb},
          table \in MountTables(MaxLines), err \in ErrResults("mount") :
          parsed' = [called |-> TRUE, multipathDevice |-> multipathDevice,
                     table |-> IF err = Nil THEN table ELSE <<>>,
                     err |-> err,
                     mountPoints |->
                         IF err /= Nil THEN <<>>
                         ELSE findMountPoints(mountLines(MountOutput(table)),
                                              multipathDevice)]
    /\ UNCHANGED <<multipathConf, hostFacts, runs, applied, configure, removal, signals>>

NextMounts == findMountPointsOfMultipathDevice /\ UNCHANGED <<teardownVars, iscsiVars>>

SpecMounts == Init /\ [][NextMounts]_vars

\* The lines of the table whose first field contains the device name, among
\* those of more than three fields.
MatchingLines ==
    SelectSeq(parsed.table,
              LAMBDA line : /\ Len(Fields(line)) > 3
                            /\ Contains(Fields(line)[1], parsed.multipathDevice))

\* C18 as stated: the line "/dev/mapper/mpatha /data ext4 rw" gives "/data"
\* for mpatha.
C18_ExampleYieldsData ==
    /\ parsed.called /\ parsed.err = Nil /\ parsed.multipathDevice = MountText.alias_mpatha
    /\ parsed.table = <<MountText.example>>
    => parsed.mountPoints = <<<<"/", "d", "a", "t", "a">>>>

\* C18: the call returns, in the order of the mount table, the third field
\* of every line of more than three fields whose first field contains the
\* device name, and nothing (with no error) when there is no such line; the
\* line "/dev/mapper/mpatha on /data type ext4 (rw)" gives "/data" for
\* mpatha, the line "/dev/mapper/mpatha /data ext4 rw" gives "ext4". When
\* `mount` fails the error is returned with no mount point.
C18_ThirdFieldOfMatchingLines ==
    parsed.called =>
        /\ parsed.err = Nil =>
              /\ parsed.mountPoints =
                     [i \in 1..Len(MatchingLines) |-> Fields(MatchingLines[i])[3]]
              /\ parsed.multipathDevice = MountText.alias_mpatha =>
                    /\ parsed.table = <<MountText.mpatha>> => parsed.mountPoints = <<<<"/", "d", "a", "t", "a">>>>
                    /\ parsed.table = <<MountText.example>> => parsed.mountPoints = <<<<"e", "x", "t", "4">>>>
        /\ parsed.err /= Nil => parsed.mountPoints = <<>>

\* The example line was parsed for mpatha.
C18_Witness ==
    /\ parsed.called /\ parsed.err = Nil /\ parsed.multipathDevice = MountText.alias_mpatha
    /\ parsed.table = <<MountText.example>>
    /\ parsed.mountPoints = <<<<"e", "x", "t", "4">>>>

----------------------------------------------------------------------------
\* setMultipathRecommendations on the section tree of /etc/multipath.conf.

MaxSections == 2

\* A property map of a section, and the assignment properties[key] = value.
SetProperty(properties, key, value) ==
    [k \in DOMAIN properties \cup {key} |-> IF k = key THEN value ELSE properties[k]]

\* The tree ParseConfig gives: the devices section with its device
\* sections in file order, and the defaults section, either of which can
\* be missing.
Tree(devices, device, defaults, properties) ==
    [devices  |-> [present |-> devices, device |-> device],
     defaults |-> [present |-> defaults, properties |-> properties]]
DeviceSections ==
    { <<>>,
      << SetProperty(SetProperty(EmptyMap, Word.vendor, Word.Nimble), Word.path_checker, Word.no) >>,
      << SetProperty(EmptyMap, Word.vendor, Word.ThreePAR),
         SetProperty(SetProperty(EmptyMap, Word.vendor, Word.Nimble), Word.path_checker, Word.tur) >> }
ConfTrees ==
    {Tree(FALSE, <<>>, d, p) : <<d, p>> \in {<<FALSE, EmptyMap>>, <<TRUE, EmptyMap>>}}
    \cup
    {Tree(TRUE, device, TRUE, p) :
        device \in DeviceSections,
        p \in {EmptyMap, SetProperty(EmptyMap, Word.find_multipaths, Word.yes),
               SetProperty(EmptyMap, Word.find_multipaths, Word.no), SetProperty(EmptyMap, Word.find_multipaths, Word.strict)}}
    \cup
    {Tree(TRUE, device, FALSE, EmptyMap) : device \in DeviceSections}

\* config.GetDeviceSection(device): the first device section of that vendor
\* (0: there is none, an error).
GetDeviceSection(config, device) ==
    LET matching == {i \in 1..Len(config.devices.device) :
                        /\ Word.vendor \in DOMAIN config.devices.device[i]
                        /\ config.devices.device[i][Word.vendor] = device}
    IN  IF matching = {} THEN 0 ELSE CHOOSE i \in matching : \A j \in matching : i <= j

\* config.AddSection("device", devicesSection), after config.AddSection(
\* "devices", root) when there is no devices section.
AddDeviceSection(config) ==
    [config EXCEPT !.devices = [present |-> TRUE,
                                device |-> Append(config.devices.device, EmptyMap)]]

\* The loop writing the recommended values into the device section.
RECURSIVE SetRecommendations(_, _)
SetRecommendations(properties, recommendations) ==
    IF recommendations = <<>> THEN properties
    ELSE SetRecommendations(
             SetProperty(properties, Head(recommendations).Parameter,
                         Head(recommendations).Recommendation),
             Tail(recommendations))

\* Lines 573-579: find_multipaths becomes "no" if it reads as "yes" or as
\* the empty string, which is also what a missing key reads as.
ForceFindMultipaths_OnlyWhenYes(properties) ==
    LET value == IF Word.find_multipaths \in DOMAIN properties
                 THEN properties[Word.find_multipaths] ELSE <<>>
    IN  IF value = Word.yes THEN SetProperty(properties, Word.find_multipaths, Word.no) ELSE properties
ForceFindMultipaths(properties) ==
    LET value == IF Word.find_multipaths \in DOMAIN properties
                 THEN properties[Word.find_multipaths] ELSE <<>>
    IN  IF value = Word.yes \/ value = <<>>
        THEN SetProperty(properties, Word.find_multipaths, Word.no)
        ELSE properties

\* setMultipathRecommendations: the error it returns and the tree it has
\* built when it comes to save it.
setMultipathRecommendationsResult(config, recommendations, device, failure) ==
    LET found    == GetDeviceSection(config, device)
        added    == IF found = 0 THEN AddDeviceSection(config) ELSE config
        section  == IF found = 0 THEN Len(added.devices.device) ELSE found
        updated  == [added EXCEPT !.devices.device[section] =
                        SetRecommendations(@, recommendations)]
        adding   == found = 0 \/ ~config.defaults.present
        complete == [updated EXCEPT !.defaults =
                        [present |-> TRUE,
                         properties |-> ForceFindMultipaths(
                             IF config.defaults.present
                             THEN config.defaults.properties ELSE EmptyMap)]]
    IN  IF failure = "parse" THEN [err |-> CmdErr("ParseConfig"), config |-> config]
        ELSE IF failure = "add" /\ adding THEN [err |-> CmdErr("AddSection"), config |-> config]
        ELSE IF failure = "save" THEN [err |-> CmdErr("SaveConfig"), config |-> complete]
        ELSE [err |-> Nil, config |-> complete]

RecommendationLists ==
    { <<>>, << [Parameter |-> Word.path_checker, Recommendation |-> Word.tur] >>,
      << [Parameter |-> Word.no_path_retry, Recommendation |-> Word.thirty], [Parameter |-> Word.path_checker, Recommendation |-> Word.tur] >> }

\* One call of setMultipathRecommendations. The file holds the tree the
\* call saved; a failed save leaves the old or the new content.
setMultipathRecommendations ==
    /\ multipathConf.state = "tree"
    /\ \E recommendations \in RecommendationLists, device \in {Word.Nimble, Word.ThreePAR},
          failure \in {"none", "parse", "add", "save"} :
          LET r == setMultipathRecommendationsResult(multipathConf.tree, recommendations,
                                                     device, failure)
          IN  /\ Len(r.config.devices.device) <= MaxSections
              /\ applied' = [called |-> TRUE, before |-> multipathConf.tree,
                             recommendations |-> recommendations, device |-> device,
                             err |-> r.err, after |-> r.config]
              /\ \/ r.err \in {Nil, CmdErr("SaveConfig")} /\ multipathConf' = [state |-> "tree", tree |-> r.config]
                 \/ r.err /= Nil /\ multipathConf' = multipathConf
    /\ UNCHANGED <<hostFacts, runs, parsed, configure, removal, signals>>

InitApply ==
    /\ TeardownInit
    /\ targetTypeCache = EmptyMap /\ cachedTargetPortals = EmptyMap
    /\ targetMappings = <<>> /\ disksLeft = <<>> /\ lastTarget = NoCall
    /\ iscsiPlugin = TRUE
    /\ multipathConf \in {[state |-> "tree", tree |-> t] : t \in ConfTrees}
    /\ hostFacts = "required"
    /\ runs = <<>>
    /\ applied = NoCall
    /\ parsed = NoCall
    /\ configure = NoCall
    /\ removal = NoCall
    /\ signals = NoCall

NextApply == setMultipathRecommendations /\ UNCHANGED <<teardownVars, iscsiVars>>

SpecApply == InitApply /\ [][NextApply]_vars

\* The last call of setMultipathRecommendations returned no error.
Applied == applied.called /\ applied.err = Nil
\* find_multipaths in the defaults section of a tree, <<>> when the section
\* or the property is missing.
FindMultipaths(tree) ==
    IF tree.defaults.present /\ Word.find_multipaths \in DOMAIN tree.defaults.properties
    THEN tree.defaults.properties[Word.find_multipaths] ELSE <<>>
\* The device section the call wrote to: the first one of the vendor before
\* the call, or else the section added at the end.
WrittenSection ==
    IF GetDeviceSection(applied.before, applied.device) /= 0
    THEN applied.after.devices.device[GetDeviceSection(applied.before, applied.device)]
    ELSE applied.after.devices.device[Len(applied.after.devices.device)]

\* C20: after a call of setMultipathRecommendations that returns no error,
\* the saved tree has a defaults section with a find_multipaths property
\* that is not "yes": it is "no" if it was missing or "yes" before the call
\* and is unchanged otherwise; and the device section the call wrote to has
\* the recommended value for the parameter of every recommendation.
C20_AppliedTreeHasDefaultsAndValues ==
    Applied =>
        /\ multipathConf.tree = applied.after
        /\ applied.after.defaults.present
        /\ Word.find_multipaths \in DOMAIN applied.after.defaults.properties
        /\ FindMultipaths(applied.after) /= Word.yes
        /\ FindMultipaths(applied.after) =
               IF FindMultipaths(applied.before) \in {<<>>, Word.yes} THEN Word.no
               ELSE FindMultipaths(applied.before)
        /\ \A i \in DOMAIN applied.recommendations :
               /\ applied.recommendations[i].Parameter \in DOMAIN WrittenSection
               /\ WrittenSection[applied.recommendations[i].Parameter] =
                      applied.recommendations[i].Recommendation

\* A call succeeded on a tree without find_multipaths and with no device
\* section of the vendor, writing two values.
C20_Witness ==
    /\ Applied
    /\ FindMultipaths(applied.before) = <<>>
    /\ GetDeviceSection(applied.before, applied.device) = 0
    /\ Len(applied.recommendations) = 2
C20_WitnessKept ==
    Applied /\ FindMultipaths(applied.before) = Word.strict /\ FindMultipaths(applied.after) = Word.strict

----------------------------------------------------------------------------
\* SetMultipathRecommendations: the configuration file is seeded from the
\* template when it is missing or empty, the recommendations are computed
\* and applied per device type, the service is started and reconfigured.

\* The tree of the template file GetMultipathTemplateFile names.
multipathTemplate ==
    Tree(TRUE,
         << SetProperty(SetProperty(EmptyMap, Word.vendor, Word.Nimble),
                        Word.path_checker, Word.tur) >>,
         TRUE, SetProperty(EmptyMap, Word.find_multipaths, Word.no))

\* The text SaveConfig writes for a section: a line " name value" per
\* property, the vendor in quotes.
RECURSIVE SectionText(_, _)
SectionText(properties, keys) ==
    IF keys = <<>> THEN <<>>
    ELSE (IF Head(keys) \in DOMAIN properties
          THEN <<" ">> \o Head(keys) \o <<" ">> \o
               (IF Head(keys) = Word.vendor
                THEN <<quote>> \o properties[Head(keys)] \o <<quote>>
                ELSE properties[Head(keys)]) \o <<nl>>
          ELSE <<>>)
         \o SectionText(properties, Tail(keys))

\* The file as GetMultipathRecommendations reads it: the device blocks of a
\* saved tree, in file order.
ReadFile(conf) ==
    IF conf.state = "tree"
    THEN [state |-> "file",
          blocks |-> [i \in DOMAIN conf.tree.devices.device |->
                         <<nl>> \o SectionText(conf.tree.devices.device[i],
                                      <<Word.vendor, Word.path_checker, Word.no_path_retry>>)]]
    ELSE conf

\* One step of the call, as the call ran it.
Step(name, device, err) == [step |-> name, device |-> device, err |-> err]

\* The call takes `step` and goes on at `next`, or returns err if next is "done".
Took(step, next, err) ==
    [configure EXCEPT !.pc = next, !.err = err, !.steps = Append(@, step)]

\* Lines 596-598: os.Stat; a missing or an empty file is seeded.
Stat ==
    /\ configure.pc = "stat"
    /\ configure' = [Took(Step("stat", "", Nil),
                          IF multipathConf.state \in {"absent", "empty"}
                          THEN "seed" ELSE "recommend", Nil)
                     EXCEPT !.stat = multipathConf.state]
    /\ UNCHANGED <<multipathConf, hostFacts, runs, applied, parsed, removal, signals>>

\* Lines 599-607: the template is located and copied over the file.
CopyFile ==
    /\ configure.pc = "seed"
    /\ \E templateErr \in ErrResults("GetMultipathTemplateFile"),
          copyErr \in ErrResults("CopyFile") :
          IF templateErr /= Nil
          THEN /\ configure' = Took(Step("template", "", templateErr), "done", templateErr)
               /\ UNCHANGED multipathConf
          ELSE IF copyErr /= Nil
          THEN /\ configure' = Took(Step("copy", "", copyErr), "done", copyErr)
               /\ UNCHANGED multipathConf
          ELSE /\ configure' = Took(Step("copy", "", Nil), "recommend", Nil)
               /\ multipathConf' = [state |-> "tree", tree |-> multipathTemplate]
    /\ UNCHANGED <<hostFacts, runs, applied, parsed, removal, signals>>

\* Faulty variant of AfterRecommendations: an empty list goes on to the
\* service start.
AfterRecommendations_StartsAnyway(err, n) ==
    IF err /= Nil THEN "done" ELSE IF n = 0 THEN "start" ELSE "apply"

\* Lines 611-617: an error is returned, an empty list returns nil.
AfterRecommendations(err, n) ==
    IF err /= Nil THEN "done" ELSE IF n = 0 THEN "done" ELSE "apply"

\* Line 610: recommendations, err := GetMultipathRecommendations().
ComputeRecommendations ==
    /\ configure.pc = "recommend"
    /\ \E order \in Orders(DOMAIN deviceBlockPattern), keyOrder \in KeyOrders :
          LET r == GetMultipathRecommendationsResult(ReadFile(multipathConf), hostFacts,
                                                     order, keyOrder)
          IN  configure' =
                  [Took(Step("recommend", "", r.err),
                        AfterRecommendations(r.err, Len(r.settings.items)), r.err)
                   EXCEPT !.recommendations = r.settings.items, !.idx = 1]
    /\ UNCHANGED <<multipathConf, hostFacts, runs, applied, parsed, removal, signals>>

\* Lines 620-625: err is assigned in every pass of the loop and looked at
\* after the loop.
AfterApply(err, last) ==
    IF ~last THEN "apply" ELSE IF err /= Nil THEN "done" ELSE "start"

\* Line 621: setMultipathRecommendations(dev.RecomendArray, dev.DeviceType)
\* for the device type the loop stands at.
ApplyRecommendations ==
    /\ configure.pc = "apply"
    /\ \E failure \in {"none", "parse", "add", "save"} :
          LET dev == configure.recommendations[configure.idx]
              r   == setMultipathRecommendationsResult(
                         multipathConf.tree, dev.RecomendArray,
                         IF dev.DeviceType = "Nimble" THEN Word.Nimble ELSE Word.ThreePAR,
                         failure)
          IN  /\ configure' =
                     [Took(Step("apply", dev.DeviceType, r.err),
                           AfterApply(r.err, configure.idx = Len(configure.recommendations)),
                           r.err)
                      EXCEPT !.idx = @ + 1]
              /\ \/ r.err \in {Nil, CmdErr("SaveConfig")}
                    /\ multipathConf' = [state |-> "tree", tree |-> r.config]
                 \/ r.err /= Nil /\ multipathConf' = multipathConf
    /\ UNCHANGED <<hostFacts, runs, applied, parsed, removal, signals>>

\* Lines 627-630: linux.ServiceCommand(multipath, "start").
ServiceCommand ==
    /\ configure.pc = "start"
    /\ \E err \in ErrResults("ServiceCommand") :
          configure' = Took(Step("start", "", err),
                            IF err /= Nil THEN "done" ELSE "reconfigure", err)
    /\ UNCHANGED <<multipathConf, hostFacts, runs, applied, parsed, removal, signals>>

\* Lines 633-638: linux.MultipathdReconfigure().
MultipathdReconfigure ==
    /\ configure.pc = "reconfigure"
    /\ \E err \in ErrResults("MultipathdReconfigure") :
          configure' = Took(Step("reconfigure", "", err), "done", err)
    /\ UNCHANGED <<multipathConf, hostFacts, runs, applied, parsed, removal, signals>>

\* A call of SetMultipathRecommendations on a host whose configuration file
\* is missing, empty, unreadable or holds a tree.
InitConfigure ==
    /\ TeardownInit
    /\ targetTypeCache = EmptyMap /\ cachedTargetPortals = EmptyMap
    /\ targetMappings = <<>> /\ disksLeft = <<>> /\ lastTarget = NoCall
    /\ iscsiPlugin = TRUE
    /\ multipathConf \in {[state |-> "absent"], [state |-> "empty"], [state |-> "unreadable"]}
                         \cup {[state |-> "tree", tree |-> t] : t \in ConfTrees}
    /\ hostFacts \in {"required", "not required", "unknown", "no templates"}
    /\ runs = <<>>
    /\ applied = NoCall
    /\ parsed = NoCall
    /\ configure = [called |-> TRUE, pc |-> "stat", stat |-> "", steps |-> <<>>,
                    recommendations |-> <<>>, idx |-> 0, err |-> Nil]
    /\ removal = NoCall
    /\ signals = NoCall

NextConfigure ==
    \/ Stat /\ UNCHANGED <<teardownVars, iscsiVars>>
    \/ CopyFile /\ UNCHANGED <<teardownVars, iscsiVars>>
    \/ ComputeRecommendations /\ UNCHANGED <<teardownVars, iscsiVars>>
    \/ ApplyRecommendations /\ UNCHANGED <<teardownVars, iscsiVars>>
    \/ ServiceCommand /\ UNCHANGED <<teardownVars, iscsiVars>>
    \/ MultipathdReconfigure /\ UNCHANGED <<teardownVars, iscsiVars>>

SpecConfigure == InitConfigure /\ [][NextConfigure]_vars

\* The positions of the steps of one kind, and of those that succeeded.
StepsOf(names) == {i \in DOMAIN configure.steps : configure.steps[i].step \in names}
Succeeded(names) == {i \in StepsOf(names) : configure.steps[i].err = Nil}
\* The call has returned.
Returned == configure.pc = "done"

\* C21: SetMultipathRecommendations runs its steps in a fixed order. The
\* template is located and copied before the recommendations are computed,
\* and they are computed on a missing or empty file only after it was
\* seeded; every device type of the list is applied, in list order, before
\* the service is started; the service is started before the reconfigure,
\* which runs only after a successful start; and with an empty list the call
\* returns nil and nothing is applied, started or reconfigured.
C21_StepsInFixedOrder ==
    /\ \A i \in StepsOf({"template", "copy"}), j \in StepsOf({"recommend"}) : i < j
    /\ (configure.stat \in {"absent", "empty"} /\ StepsOf({"recommend"}) /= {})
          => Succeeded({"copy"}) /= {}
    /\ \A i \in StepsOf({"recommend"}), j \in StepsOf({"apply"}) : i < j
    /\ \A i \in StepsOf({"apply"}), j \in StepsOf({"start"}) : i < j
    /\ StepsOf({"start"}) /= {} =>
          /\ Cardinality(StepsOf({"apply"})) = Len(configure.recommendations)
          /\ \A k \in 1..Len(configure.recommendations) :
                \E i \in StepsOf({"apply"}) :
                    /\ configure.steps[i].device = configure.recommendations[k].DeviceType
                    /\ Cardinality({j \in StepsOf({"apply"}) : j < i}) = k - 1
    /\ \A i \in StepsOf({"start"}), j \in StepsOf({"reconfigure"}) : i < j
    /\ StepsOf({"reconfigure"}) /= {} => Succeeded({"start"}) /= {}
    /\ Cardinality(StepsOf({"start"})) <= 1 /\ Cardinality(StepsOf({"reconfigure"})) <= 1
    /\ (Succeeded({"recommend"}) /= {} /\ configure.recommendations = <<>>) =>
          /\ Returned /\ configure.err = Nil
          /\ StepsOf({"apply", "start", "reconfigure"}) = {}

\* A call that seeded the file went through every step and returned nil.
C21_Witness ==
    /\ Returned /\ configure.err = Nil
    /\ Succeeded({"copy"}) /= {} /\ Succeeded({"reconfigure"}) /= {}
    /\ Cardinality(Succeeded({"apply"})) = 2
\* A call found no recommendation and returned nil.
C21_WitnessEmpty ==
    /\ Returned /\ configure.err = Nil
    /\ Succeeded({"recommend"}) /= {} /\ configure.recommendations = <<>>

\* C27: if setMultipathRecommendations fails for any device type of the
\* list, the call returns a non-nil error and neither starts the service
\* nor issues the reconfigure.
C27_AnyApplyFailureIsReturned ==
    (\E i \in StepsOf({"apply"}) : configure.steps[i].err /= Nil) =>
        /\ StepsOf({"start", "reconfigure"}) = {}
        /\ Returned => configure.err /= Nil

----------------------------------------------------------------------------
\* RemoveBlockDevicesOfMultipathDevices: the block devices of the paths of
\* a multipath device are deleted one after the other.

\* Most path groups of a device, and most paths of a path group.
MaxPaths == 2

\* Multipath devices: their path groups, each the block devices of its
\* paths; no block device is the path of two groups or twice of one.
MultipathDevices ==
    LET names  == {<<"s", "d", "a">>, <<"s", "d", "b">>, <<"s", "d", "c">>}
        groups == UNION {[1..n -> names] : n \in 0..MaxPaths}
        all    == UNION {[1..n -> groups] : n \in 0..MaxPaths}
        paths(d) == {<<g, q>> \in (DOMAIN d) \X (1..MaxPaths) : q \in DOMAIN d[g]}
    IN  {d \in all : \A x, y \in paths(d) : d[x[1]][x[2]] = d[y[1]][y[2]] => x = y}

\* getBlockDevicesOfMultipathDevice: path.Dev of every path, group by group.
RECURSIVE getBlockDevicesOfMultipathDevice(_)
getBlockDevicesOfMultipathDevice(PathGroups) ==
    IF PathGroups = <<>> THEN <<>>
    ELSE Head(PathGroups) \o getBlockDevicesOfMultipathDevice(Tail(PathGroups))

\* Faulty variant of removeBlockDevices: a failed removal is remembered and
\* the loop goes on.
RECURSIVE removeBlockDevices_GoesOn(_, _)
removeBlockDevices_GoesOn(blockDevices, failing) ==
    IF blockDevices = <<>> THEN [err |-> Nil, requests |-> <<>>]
    ELSE LET rest == removeBlockDevices_GoesOn(Tail(blockDevices), failing)
         IN  [err |-> IF Head(blockDevices) \in failing
                      THEN [CmdErr("delete") EXCEPT !.name = Head(blockDevices)]
                      ELSE rest.err,
              requests |-> <<Head(blockDevices)>> \o rest.requests]

\* removeBlockDevices: "echo 1 > /sys/block/<blockDevice>/device/delete" per
\* block device; the first failure is returned. [err, requests], requests
\* being the block devices a removal was requested for, in order.
RECURSIVE removeBlockDevices(_, _)
removeBlockDevices(blockDevices, failing) ==
    IF blockDevices = <<>> THEN [err |-> Nil, requests |-> <<>>]
    ELSE IF Head(blockDevices) \in failing
    THEN [err |-> [CmdErr("delete") EXCEPT !.name = Head(blockDevices)],
          requests |-> <<Head(blockDevices)>>]
    ELSE LET rest == removeBlockDevices(Tail(blockDevices), failing)
         IN  [err |-> rest.err, requests |-> <<Head(blockDevices)>> \o rest.requests]

\* One call of RemoveBlockDevicesOfMultipathDevices; `failing` are the block
\* devices whose control file cannot be written. The call keeps no state.
RemoveBlockDevicesOfMultipathDevices ==
    /\ ~removal.called
    /\ \E device \in MultipathDevices :
       \E failing \in SUBSET {device[g][q] : <<g, q>> \in
                                 {x \in (DOMAIN device) \X (1..MaxPaths) : x[2] \in DOMAIN device[x[1]]}} :
          LET blockDevices == getBlockDevicesOfMultipathDevice(device)
              r == IF Len(blockDevices) = 0 THEN [err |-> Nil, requests |-> <<>>]
                   ELSE removeBlockDevices(blockDevices, failing)
          IN  removal' = [called |-> TRUE, PathGroups |-> device, failing |-> failing,
                          err |-> r.err, requests |-> r.requests]
    /\ UNCHANGED <<multipathConf, hostFacts, runs, applied, parsed, configure, signals>>

NextRemove == RemoveBlockDevicesOfMultipathDevices /\ UNCHANGED <<teardownVars, iscsiVars>>

SpecRemove == Init /\ [][NextRemove]_vars

\* The paths of the device of the call, and the place of a path in the
\* order "path group, then path".
Paths ==
    {x \in (DOMAIN removal.PathGroups) \X (1..MaxPaths) :
        x[2] \in DOMAIN removal.PathGroups[x[1]]}
Place(x) ==
    Cardinality({y \in Paths : y[1] < x[1] \/ (y[1] = x[1] /\ y[2] <= x[2])})
Dev(x) == removal.PathGroups[x[1]][x[2]]
\* The paths whose removal fails, and the first of them.
FailingPaths == {x \in Paths : Dev(x) \in removal.failing}
FirstFailing == CHOOSE x \in FailingPaths : \A y \in FailingPaths : Place(x) <= Place(y)

\* C22: the removal requests are issued in path-group order then path
\* order; when a removal fails the call returns the error of the first
\* failing one, that one is the last request, and every earlier block
\* device has had exactly one request; when none fails every block device
\* has had exactly one request and the call returns nil; with no block
\* device it returns nil without any request.
C22_FirstFailureAbortsBatch ==
    removal.called =>
        /\ \A x \in Paths : Place(x) <= Len(removal.requests) =>
                                removal.requests[Place(x)] = Dev(x)
        /\ Len(removal.requests) <= Cardinality(Paths)
        /\ IF FailingPaths /= {}
           THEN /\ removal.err = [CmdErr("delete") EXCEPT !.name = Dev(FirstFailing)]
                /\ Len(removal.requests) = Place(FirstFailing)
           ELSE /\ removal.err = Nil
                /\ Len(removal.requests) = Cardinality(Paths)
        /\ \A x \in Paths : Place(x) <= Len(removal.requests) =>
              Cardinality({k \in DOMAIN removal.requests : removal.requests[k] = Dev(x)}) = 1
        /\ Paths = {} => removal.err = Nil /\ removal.requests = <<>>

\* The removal of the second of three block devices failed, in the second
\* path group.
C22_Witness ==
    /\ removal.called /\ Cardinality(Paths) = 3 /\ Len(removal.PathGroups) = 2
    /\ FailingPaths /= {} /\ Place(FirstFailing) = 2
    /\ Cardinality(FailingPaths) = 2
    /\ Len(removal.requests) = 2 /\ removal.err /= Nil
\* A device without block devices.
C22_WitnessNone ==
    removal.called /\ Paths = {} /\ removal.err = Nil /\ removal.requests = <<>>

----------------------------------------------------------------------------
\* KillProcessesUsingMountPoints on the lines of the `fuser -mv` output.

\* Most rows of the process listing after its first line.
MaxRows == 2

\* Outputs of `fuser -mv`: a first line (the header, or a row where the
\* header should be), rows, and the empty line after a final line break.
FuserLines ==
    LET rows == { <<f_lbl, f_user, kernel, f_mnt, mp_data>>,
                  <<f_user, <<"5">>, f_acc, kernel>>,
                  <<f_user, <<"1", "2">>, f_acc, f_cmd>>,
                  <<f_lbl, f_user, <<"7">>, f_acc, f_cmd>>,
                  <<f_user, <<"x">>, f_acc, f_cmd>>,
                  <<f_user, <<"0">>, f_acc, f_cmd>>,
                  <<f_user, <<"-", "3">>, f_acc, f_cmd>>,
                  <<f_user, f_acc>>,
                  <<f_user>>,
                  <<>> }
    IN  {<<first>> \o body \o last :
            first \in {f_hdr, <<f_user, <<"9">>, f_acc, f_cmd>>},
            body \in UNION {[1..n -> rows] : n \in 0..MaxRows},
            last \in {<<>>, << <<>> >>}}

\* One call of KillProcessesUsingMountPoints: staleDeviceRemovalMutex is
\* taken and released, fuser runs, its output is scanned. The call keeps no
\* state.
KillProcessesUsingMountPoints ==
    /\ CanLock(staleDeviceRemovalMutex)
    /\ ~signals.called
    /\ \E fuserErr \in ErrResults("fuser"), lines \in FuserLines, failing \in KillFailures :
          LET r == KillProcesses(fuserErr, lines, mp_data, failing)
          IN  signals' = [called |-> TRUE, fuserErr |-> fuserErr, lines |-> lines,
                          failing |-> failing, err |-> r.err, killed |-> r.killed]
    /\ UNCHANGED <<multipathConf, hostFacts, runs, applied, parsed, configure, removal>>

NextKill == KillProcessesUsingMountPoints /\ UNCHANGED <<teardownVars, iscsiVars>>

SpecKill == Init /\ [][NextKill]_vars

\* The lines after the first that are not blank and do not name the kernel.
DataRows ==
    {i \in 2..Len(signals.lines) :
        /\ signals.lines[i] /= <<>>
        /\ \A k \in DOMAIN signals.lines[i] : ~Contains(signals.lines[i][k], kernel)}
\* The PID column of a row and what strconv.Atoi makes of it.
PidOf(i) == Atoi(PidStr(signals.lines[i]))
HasPid(i) == Len(signals.lines[i]) >= 4
\* Rows whose PID column does not parse, and rows with a PID to signal.
Unparseable == {i \in DataRows : HasPid(i) /\ ~PidOf(i).ok}
Signalled == {i \in DataRows : HasPid(i) /\ PidOf(i).ok /\ PidOf(i).n > 0}
\* Rows that end the scan with an error: a row of a single field, a row
\* whose process cannot be signalled.
Aborting ==
    {i \in DataRows : Len(signals.lines[i]) = 1}
    \cup {i \in Signalled : PidOf(i).n \in signals.failing}
\* The rows the scan comes to.
Scanned == {i \in 2..Len(signals.lines) : \A j \in Aborting : j >= i}
\* The listing was obtained and has rows.
Listed == signals.called /\ signals.fuserErr = Nil /\ Len(signals.lines) > 2

\* C23: when the listing has rows, the first line and the lines naming the
\* kernel are passed over, and a row whose PID does not parse is passed over
\* without ending the scan: the processes signalled are, in order, those of
\* every row with a positive PID up to the first row that ends the scan (a
\* row of a single field, or a process that cannot be signalled), whatever
\* unparseable rows stand before them, and the call returns an error only
\* if there is such a row.
C23_UnparseablePidSkipped ==
    Listed =>
        /\ Len(signals.killed) = Cardinality(Signalled \cap Scanned)
        /\ \A i \in Signalled \cap Scanned :
              signals.killed[Cardinality({j \in Signalled : j <= i})] = PidOf(i).n
        /\ signals.err /= Nil <=> Aborting /= {}

\* A row with an unparseable PID stood before a row that was signalled, and
\* the call returned nil.
C23_Witness ==
    /\ Listed /\ signals.err = Nil
    /\ \E i \in Unparseable : \E j \in Signalled : i < j /\ signals.killed = <<PidOf(j).n>>
\* A line naming the kernel with a number in its PID column was passed over.
C23_WitnessKernel ==
    /\ Listed /\ signals.killed = <<12>>
    /\ signals.lines[2] = <<f_user, <<"5">>, f_acc, kernel>>

\* C28: SIGKILL goes only to positive PIDs parsed from a row after the first
\* line that does not name the kernel; no process is signalled when the
\* fuser query fails or its output has fewer than three lines.
C28_OnlyPositiveParsedPids ==
    signals.called =>
        /\ \A k \in DOMAIN signals.killed :
              /\ signals.killed[k] > 0
              /\ \E i \in DataRows : HasPid(i) /\ PidOf(i).ok /\ PidOf(i).n = signals.killed[k]
        /\ (signals.fuserErr /= Nil \/ Len(signals.lines) < 3) => signals.killed = <<>>

\* Rows with the PIDs 0 and -3 were scanned and no process was signalled.
C28_Witness ==
    /\ Listed /\ signals.err = Nil /\ signals.killed = <<>>
    /\ \E i, j \in DataRows : /\ HasPid(i) /\ PidOf(i).ok /\ PidOf(i).n = 0
                              /\ HasPid(j) /\ PidOf(j).ok /\ PidOf(j).n < 0
\* The query failed on an output that lists a process.
C28_WitnessQueryFailed ==
    signals.called /\ signals.fuserErr /= Nil /\ Signalled /= {} /\ signals.killed = <<>>

----------------------------------------------------------------------------
\* The lock hierarchy of the teardown and the termination of its calls.

\* The steps of a call of thread t once it was made: every external command
\* returns, and a goroutine waiting in sync.Mutex.Lock gets the mutex if it
\* is released again and again (the mutex hands over to starving waiters).
Progress(t) ==
    \/ FindLock(t) \/ FindExec(t) \/ UmountLock(t) \/ Unmount(t) \/ KillLock(t)
    \/ KillExec(t) \/ Retry(t) \/ FlushLock(t) \/ FlushExec(t) \/ DisplayDeviceInfo(t)
    \/ ListTheProcessesUsingDevice(t) \/ ForceDeleteMultipathDevice(t) \/ Return(t)

SpecLive ==
    Spec /\ \A t \in Threads : SF_vars(Progress(t) /\ UNCHANGED <<iscsiVars, tuneVars>>)

\* The mutexes thread t holds.
HeldBy(t) ==
    (IF t \in mountMutex THEN {"mountMutex"} ELSE {})
    \cup (IF t \in umountMutex THEN {"umountMutex"} ELSE {})
    \cup (IF t \in staleDeviceRemovalMutex THEN {"staleDeviceRemovalMutex"} ELSE {})

\* mountMutex is held with no other mutex and nothing is acquired under it;
\* umountMutex is acquired with no mutex held; staleDeviceRemovalMutex is
\* acquired with at most umountMutex held.
LockOrder ==
    \A t \in Threads :
        /\ t \in mountMutex => HeldBy(t) = {"mountMutex"} /\ pc[t] = "find_exec"
        /\ pc[t] \in {"find_lock", "umount_lock", "flush_lock"} => HeldBy(t) = {}
        /\ pc[t] = "kill_lock" => HeldBy(t) \subseteq {"umountMutex"}

\* A call that has ended holds no mutex.
EndsUnlocked == \A t \in Threads : Finished(t) => HeldBy(t) = {}

\* C24: the three mutexes are acquired in one order (nothing under
\* mountMutex, umountMutex before staleDeviceRemovalMutex), a call that has
\* ended holds none of them, and, every external command returning, every
\* call of UnmountMultipathDevice, KillProcessesUsingMountPoints and
\* FlushMultipathDevice eventually returns.
C24_LockOrderAndEveryCallReturns ==
    /\ [](LockOrder /\ EndsUnlocked)
    /\ \A t \in Threads : InProgress(t) ~> (pc[t] = "done")
\* What holds of it: the lock order, and every call ends, by a return or
\* by the panic of unmount.
LockOrderAndEveryCallEnds ==
    /\ [](LockOrder /\ EndsUnlocked)
    /\ \A t \in Threads : InProgress(t) ~> Finished(t)

----------------------------------------------------------------------------
\* C25: when the file holds a device block for a known vendor, a run that
\* produces verdicts computes the verdicts of that vendor's device type
\* from that block (current values taken from the block), whatever the
\* order in which the patterns are visited and whatever other blocks the
\* file holds.
C25_VerdictsFromVendorBlock ==
    (hostFacts = "required" /\ multipathConf.state = "file") =>
        \A r \in DOMAIN runs : \A v \in DOMAIN deviceBlockPattern :
            LET found == device_block(multipathConf, deviceBlockPattern[v])
                index == IF v = "Nimble" THEN 1 ELSE 2
                array == runs[r].result.settings.items[index].RecomendArray
            IN  found.matched =>
                    /\ runs[r].result.err = Nil
                    /\ ~runs[r].result.settings.isNil
                    /\ \A i \in DOMAIN array :
                          array[i] = KeyRecommendation(
                                         Split(TrimSpace(found.text)), array[i].Parameter,
                                         deviceBlockRecommendationMap[index].deviceMap[
                                             array[i].Parameter])

\* The umount runs of a call that failed: exit code or error value.
FailedUmounts(t) ==
    {k \in DOMAIN calls[t] : calls[t][k].cmd = "umount" /\ calls[t][k].res /= "ok"}
\* The call went on from run k of umount as from a failure: the processes
\* using the mount point are killed next, or the call returned an error.
TreatedAsFailure(t, k) ==
    IF k < Len(calls[t])
    THEN calls[t][k + 1].cmd = "kill" /\ calls[t][k + 1].at = calls[t][k].at
    ELSE \/ pc[t] \in {"kill_lock", "kill_exec"}
         \/ pc[t] = "done" /\ ret[t] /= Nil

\* C26: whenever umount returns an error or a non-zero exit code, unmount
\* returns a non-nil error without crashing, and UnmountMultipathDevice
\* does not go on as if the mount point were unmounted.
C26_FailedUmountReturnsError ==
    \A t \in Threads :
        /\ pc[t] /= "panicked"
        /\ \A k \in FailedUmounts(t) : pc[t] /= "panicked" => TreatedAsFailure(t, k)
\* What holds of it: a failed umount whose call did not crash is never
\* taken for a success.
FailedUmountNeverTakenForSuccess ==
    \A t \in Threads :
        \A k \in FailedUmounts(t) : pc[t] /= "panicked" => TreatedAsFailure(t, k)
====
